---- MODULE Spec2Model ----
(***************************************************************************)
(* A model of go-pgrouter: the LSN value type, the backend selector, the   *)
(* causal router (CausalRouter.RouteQuery / UpdateLSNAfterWrite), the      *)
(* facade (DB.ExecContext / QueryContext / QueryRowContext / BeginTx), the *)
(* transaction wrapper (tx) and the HTTP middleware with its response      *)
(* wrapper.  PostgreSQL itself is the environment: every primary has a     *)
(* current WAL LSN that grows with each committed write, every replica has *)
(* a replay LSN that follows primary 1.                                    *)
(***************************************************************************)
EXTENDS Integers, Sequences, FiniteSets, TLC

\* ------------------------------------------------------------------ bounds
MaxPrimaries == 2
MaxReplicas == 2
\* WAL positions range over 0..MaxPos
MaxPos == 2
\* the number of values of the lower half of an LSN in the model (2^32 in
\* PostgreSQL): position k is the LSN (k div HalfBase)/(k mod HalfBase)
HalfBase == 2
\* the number of goroutines that call getOrCreateChecker concurrently
MaxProcs == 2
\* the length of a statement's text, counted in pieces (see Pieces)
MaxText == 3

\* the length of a text handed to ParseLSN, in characters
MaxLSNText == 4

\* the number of options handed to one call of New
MaxOptions == 3

\* the width of one half of an LSN in bits where the 64-bit value of an LSN
\* is computed (32 in the program): the value has 2 * HalfWidth bits
HalfWidth == 2

\* ------------------------------------------------------------ LSN value type
\* type LSN struct { Upper uint32; Lower uint32 }
LSN(u, l) == [Upper |-> u, Lower |-> l]

ZeroLSN == LSN(0, 0)

\* the LSN of WAL position k
LSNOf(k) == LSN(k \div HalfBase, k % HalfBase)

LSNs == {LSNOf(k) : k \in 0..MaxPos}

\* a Compare that looks at the lower half first
CompareLowerFirst(lsn, other) ==
    IF lsn.Lower < other.Lower THEN -1
    ELSE IF lsn.Lower > other.Lower THEN 1
    ELSE IF lsn.Upper < other.Upper THEN -1
    ELSE IF lsn.Upper > other.Upper THEN 1
    ELSE 0

\* func (lsn LSN) Compare(other LSN) int
Compare(lsn, other) ==
    IF lsn.Upper < other.Upper THEN -1
    ELSE IF lsn.Upper > other.Upper THEN 1
    ELSE IF lsn.Lower < other.Lower THEN -1
    ELSE IF lsn.Lower > other.Lower THEN 1
    ELSE 0

\* func (lsn LSN) LessThan(other LSN) bool
NotGreaterThan(lsn, other) == Compare(lsn, other) <= 0

LessThan(lsn, other) == Compare(lsn, other) < 0

\* func (lsn LSN) LessThanOrEqual(other LSN) bool
LessThanOrEqual(lsn, other) == Compare(lsn, other) <= 0

\* func (lsn LSN) GreaterThan(other LSN) bool
GreaterThan(lsn, other) == Compare(lsn, other) > 0

\* func (lsn LSN) GreaterThanOrEqual(other LSN) bool
GreaterThanOrEqual(lsn, other) == Compare(lsn, other) >= 0

\* func (lsn LSN) Equals(other LSN) bool
Equals(lsn, other) == Compare(lsn, other) = 0

\* func (lsn LSN) IsZero() bool
IsZero(lsn) == lsn.Upper = 0 /\ lsn.Lower = 0

\* 2^n
RECURSIVE Pow2(_)
Pow2(n) == IF n = 0 THEN 1 ELSE 2 * Pow2(n - 1)

\* the values of one half and of the whole 64-bit word, at the model's width
HalfModulus == Pow2(HalfWidth)

WordModulus == HalfModulus * HalfModulus

\* func (lsn LSN) ToUint64() uint64: (uint64(Upper) << 32) | uint64(Lower)
ToUint64(lsn) == (lsn.Upper * HalfModulus + lsn.Lower) % WordModulus

\* a Subtract without the LessThan guard: the unsigned difference wraps
SubtractWrapping(lsn, other) ==
    (ToUint64(lsn) - ToUint64(other)) % WordModulus

\* func (lsn LSN) Subtract(other LSN) uint64
Subtract(lsn, other) ==
    IF LessThan(lsn, other) THEN 0
    ELSE LET thisUint64 == (lsn.Upper * HalfModulus + lsn.Lower) % WordModulus
             otherUint64 == (other.Upper * HalfModulus + other.Lower) % WordModulus
         IN  (thisUint64 - otherUint64) % WordModulus

\* every LSN whose halves fit the model's width
WideLSNs == {LSN(u, l) : u \in 0..(HalfModulus - 1), l \in 0..(HalfModulus - 1)}

\* ------------------------------------------------- LSN text form (%X/%X)
HexDigits == <<"0", "1", "2", "3", "4", "5", "6", "7",
               "8", "9", "A", "B", "C", "D", "E", "F">>

RECURSIVE FormatDecimal(_)
\* fmt.Sprintf("%d", n): decimal, no padding
FormatDecimal(n) ==
    IF n < 10 THEN <<HexDigits[n + 1]>>
    ELSE FormatDecimal(n \div 10) \o <<HexDigits[(n % 10) + 1]>>

RECURSIVE FormatHex(_)
\* fmt.Sprintf("%X", n): uppercase hex, no padding
FormatHex(n) ==
    IF n < 16 THEN <<HexDigits[n + 1]>>
    ELSE FormatHex(n \div 16) \o <<HexDigits[(n % 16) + 1]>>

\* a String that prints the lower half before the upper half
StringLowerFirst(lsn) == FormatHex(lsn.Lower) \o <<"/">> \o FormatHex(lsn.Upper)

\* func (lsn LSN) String() string
String(lsn) == FormatHex(lsn.Upper) \o <<"/">> \o FormatHex(lsn.Lower)

\* value of one hex digit, -1 when the character is no hex digit
DigitValue(ch) ==
    IF \E i \in 1..16 : HexDigits[i] = ch
    THEN (CHOOSE i \in 1..16 : HexDigits[i] = ch) - 1
    ELSE IF ch \in {"a", "b", "c", "d", "e", "f"}
    THEN CASE ch = "a" -> 10 [] ch = "b" -> 11 [] ch = "c" -> 12
           [] ch = "d" -> 13 [] ch = "e" -> 14 [] ch = "f" -> 15
    ELSE -1

RECURSIVE ParseHexFrom(_, _)
\* strconv.ParseUint(s, 16, 32) on a non-empty run of hex digits; -1 on error.
\* acc * 16 + digit exceeds 32 bits exactly when acc >= 2^28.
ParseHexFrom(s, acc) ==
    IF s = <<>> THEN acc
    ELSE IF DigitValue(Head(s)) < 0 THEN -1
    ELSE IF acc >= 268435456 THEN -1
    ELSE ParseHexFrom(Tail(s), acc * 16 + DigitValue(Head(s)))

ParseUint(s) == IF s = <<>> THEN -1 ELSE ParseHexFrom(s, 0)

\* positions of "/" in s
SlashAt(s) == {i \in 1..Len(s) : s[i] = "/"}

\* func ParseLSN(lsnStr string) (LSN, error)
ParseLSN(s) ==
    IF s = <<>> \/ Cardinality(SlashAt(s)) # 1
    THEN [ok |-> FALSE, lsn |-> ZeroLSN]
    ELSE LET k == CHOOSE i \in SlashAt(s) : TRUE
             upper == ParseUint(SubSeq(s, 1, k - 1))
             lower == ParseUint(SubSeq(s, k + 1, Len(s)))
         IN  IF upper < 0 \/ lower < 0
             THEN [ok |-> FALSE, lsn |-> ZeroLSN]
             ELSE [ok |-> TRUE, lsn |-> LSN(upper, lower)]

\* ------------------------------------------------------- backend handles
\* *sql.DB handles of the facade: db.primaries[i-1], db.replicas[i-1], nil
Primary(i) == [kind |-> "primary", idx |-> i]
Replica(i) == [kind |-> "replica", idx |-> i]
NilDB == [kind |-> "nil", idx |-> 0]

\* ------------------------------------------------------------ enumerations
QueryTypeUnknown == "QueryTypeUnknown"
QueryTypeRead == "QueryTypeRead"
QueryTypeWrite == "QueryTypeWrite"
QueryTypes == {QueryTypeUnknown, QueryTypeRead, QueryTypeWrite}

NoneCausalConsistency == "NoneCausalConsistency"
ReadYourWrites == "ReadYourWrites"
StrongConsistency == "StrongConsistency"
Levels == {NoneCausalConsistency, ReadYourWrites, StrongConsistency}

\* errors of RouteQuery, "" is nil
ErrNone == ""
ErrNotEnabled == "causal consistency not enabled"
ErrNoPrimary == "no primary databases available"
ErrNoReplicaCaughtUp == "no replica has caught up to required LSN"
ErrUnableToRoute == "unable to route query: no suitable database found"

\* ------------------------------------------------- the query type checker
\* A statement's text is a sequence of pieces: runs of word characters
\* ([0-9A-Za-z_]) that are put side by side without a break, single
\* characters of \s and single characters that are neither.
SpacePieces == {" ", "\t"}
PunctPieces == {"(", ";"}
WordPieces ==
    {"INSERT", "insert", "Update", "DELETE", "MERGE", "TRUNCATE", "REPLACE",
     "RETURNING", "Returning", "SELECT", "x"}
Pieces == SpacePieces \cup PunctPieces \cup WordPieces

\* (?i): the piece folded to upper case
ToUpper(piece) ==
    CASE piece = "insert" -> "INSERT"
      [] piece = "Update" -> "UPDATE"
      [] piece = "Returning" -> "RETURNING"
      [] piece = "x" -> "X"
      [] OTHER -> piece

\* the verbs of writePattern
WriteVerbs == {"INSERT", "UPDATE", "DELETE", "MERGE", "TRUNCATE", "REPLACE"}

\* \w at position k of the text; no character outside the text is one
IsWordAt(query, k) == k \in 1..Len(query) /\ query[k] \in WordPieces

\* \b between the pieces k and k+1
WordBoundary(query, k) == IsWordAt(query, k) # IsWordAt(query, k + 1)

\* ^\s*: the number of pieces of \s the text begins with
RECURSIVE LeadingSpace(_, _)
LeadingSpace(query, k) ==
    IF k < Len(query) /\ query[k + 1] \in SpacePieces
    THEN LeadingSpace(query, k + 1)
    ELSE k

\* ^\s*(INSERT|UPDATE|DELETE|MERGE|TRUNCATE|REPLACE)\b
MatchesVerb(query) ==
    LET k == LeadingSpace(query, 0) + 1
    IN  /\ k <= Len(query)
        /\ ToUpper(query[k]) \in WriteVerbs
        /\ WordBoundary(query, k)

\* \bRETURNING\b anywhere in the text
MatchesReturning(query) ==
    \E k \in 1..Len(query) :
        /\ ToUpper(query[k]) = "RETURNING"
        /\ WordBoundary(query, k - 1)
        /\ WordBoundary(query, k)

\* a Check whose pattern has no \b after the verb
CheckVerbPrefix(query) ==
    LET k == LeadingSpace(query, 0) + 1
    IN  IF (k <= Len(query) /\ ToUpper(query[k]) \in WriteVerbs)
            \/ MatchesReturning(query)
        THEN QueryTypeWrite
        ELSE QueryTypeUnknown

\* func (c *DefaultQueryTypeChecker) Check(query string) QueryType
Check(query) ==
    IF MatchesVerb(query) \/ MatchesReturning(query)
    THEN QueryTypeWrite
    ELSE QueryTypeUnknown

\* ------------------------------------------------------------ the selector
\* LoadBalancer.Resolve(dbs): the index chosen in a list of n handles; pick
\* is the policy's choice for this call (the counter's value, the draw).
Resolve(n, pick) == ((pick - 1) % n) + 1

\* RoundRobinLoadBalancer: the policy's choice for a call is the value of
\* its counter after the call's atomic increment; one balancer, and so one
\* counter, serves the primaries and the replicas. The counter is kept
\* modulo span, a common multiple of the lengths of the lists.
RoundRobinPick(next) == next + 1
RoundRobinNext(next, calls, span) == (next + calls) % span

\* ---------------------------------------------------------------- tokens
\* *LSNContext carried by a context; NoToken is the absent (nil) token
NoToken == [present |-> FALSE, RequiredLSN |-> ZeroLSN, Level |-> NoneCausalConsistency,
            ForceMaster |-> FALSE, HasWriteOperation |-> FALSE]

LSNContext(lsn, level, force, wrote) ==
    [present |-> TRUE, RequiredLSN |-> lsn, Level |-> level,
     ForceMaster |-> force, HasWriteOperation |-> wrote]

\* ------------------------------------------------------- the LSN adapter
\* what PostgreSQL prints for the pg_lsn at WAL position pos
PGText(pos) == String(LSNOf(pos))

\* ParseLSN of what the server prints, tabulated over the positions
ScanLSN == [pos \in 0..MaxPos |-> ParseLSN(PGText(pos))]

\* func (c *PGLSNChecker) GetLastReplayLSN(ctx) (LSN, error): qerr is a
\* failed or timed-out query, pos the replica's replay position
GetLastReplayLSN(pos, qerr) ==
    IF qerr THEN [ok |-> FALSE, lsn |-> ZeroLSN] ELSE ScanLSN[pos]

\* func (c *PGLSNChecker) GetCurrentWALLSN(ctx) (LSN, error): the query is
\* defined on a primary only
GetCurrentWALLSN(db, pos, qerr) ==
    IF qerr \/ db.kind # "primary" THEN [ok |-> FALSE, lsn |-> ZeroLSN]
    ELSE ScanLSN[pos]

\* ------------------------------------------------------- faulty variants
\* a shouldUseReplica that takes a failed replay-LSN query for a replica
\* that has caught up
shouldUseReplicaOnError(c, requiredLSN, env) ==
    IF c.nReplicas = 0
    THEN [use |-> FALSE, db |-> [kind |-> "nil", idx |-> 0], resolves |-> 0,
          replayQ |-> <<>>]
    ELSE LET selected == [kind |-> "replica",
                          idx |-> Resolve(c.nReplicas, env.pickR)]
             replicaLSN == GetLastReplayLSN(env.rpos, env.qerr)
         IN  [use |-> IsZero(requiredLSN) \/ ~replicaLSN.ok
                          \/ ~LessThan(replicaLSN.lsn, requiredLSN),
              db |-> selected, resolves |-> 1,
              replayQ |-> IF IsZero(requiredLSN) THEN <<>>
                          ELSE <<[db |-> selected, ok |-> replicaLSN.ok,
                                  lsn |-> replicaLSN.lsn, pos |-> env.rpos]>>]

\* a shouldUseReplica that asks every replica in turn for its replay LSN
\* until one has caught up
shouldUseReplicaScanning(c, requiredLSN, env) ==
    IF c.nReplicas = 0
    THEN [use |-> FALSE, db |-> [kind |-> "nil", idx |-> 0], resolves |-> 0,
          replayQ |-> <<>>]
    ELSE LET replicaLSN == GetLastReplayLSN(env.rpos, env.qerr)
             ready == replicaLSN.ok /\ ~LessThan(replicaLSN.lsn, requiredLSN)
             upto == IF ready THEN Resolve(c.nReplicas, env.pickR) ELSE c.nReplicas
         IN  [use |-> IsZero(requiredLSN) \/ ready,
              db |-> IF IsZero(requiredLSN) \/ ready
                     THEN [kind |-> "replica", idx |-> upto]
                     ELSE [kind |-> "nil", idx |-> 0],
              resolves |-> 1,
              replayQ |-> IF IsZero(requiredLSN) THEN <<>>
                          ELSE [k \in 1..upto |->
                                   [db |-> [kind |-> "replica", idx |-> k],
                                    ok |-> replicaLSN.ok, lsn |-> replicaLSN.lsn,
                                    pos |-> env.rpos]]]

\* a RouteQuery that does not read the consistency level: a statement that
\* is not a write goes to a replica whenever one is configured
RouteQueryLevelBlind(c, tok, queryType, env) ==
    IF ~c.Enabled
    THEN [db |-> [kind |-> "nil", idx |-> 0], err |-> ErrNotEnabled,
          resolves |-> 0, replayQ |-> <<>>]
    ELSE IF queryType = QueryTypeWrite \/ c.nReplicas = 0
    THEN [db |-> [kind |-> "primary", idx |-> Resolve(c.nPrimaries, env.pickP)],
          err |-> ErrNone, resolves |-> 1, replayQ |-> <<>>]
    ELSE [db |-> [kind |-> "replica", idx |-> Resolve(c.nReplicas, env.pickR)],
          err |-> ErrNone, resolves |-> 1, replayQ |-> <<>>]

\* ------------------------------------------------------------- the router
\* func (r *CausalRouter) shouldUseReplica(ctx, requiredLSN) (bool, *sql.DB, error)
\* env.pickR is the selector's choice among the replicas, env.rpos the chosen
\* replica's replay position, env.qerr whether the replay-LSN query fails.
\* replayQ lists the replay-LSN queries made: the replica asked and its answer.
shouldUseReplica(c, requiredLSN, env) ==
    IF c.nReplicas = 0
    THEN [use |-> FALSE, db |-> NilDB, resolves |-> 0, replayQ |-> <<>>]
    ELSE LET selected == Replica(Resolve(c.nReplicas, env.pickR))
             replicaLSN == GetLastReplayLSN(env.rpos, env.qerr)
             asked == <<[db |-> selected, ok |-> replicaLSN.ok,
                         lsn |-> replicaLSN.lsn, pos |-> env.rpos]>>
         IN  IF IsZero(requiredLSN)
             THEN [use |-> TRUE, db |-> selected, resolves |-> 1, replayQ |-> <<>>]
             ELSE IF replicaLSN.ok /\ ~LessThan(replicaLSN.lsn, requiredLSN)
             THEN [use |-> TRUE, db |-> selected, resolves |-> 1, replayQ |-> asked]
             ELSE [use |-> FALSE, db |-> NilDB, resolves |-> 1, replayQ |-> asked]

\* return r.dbProvider.LoadBalancer().Resolve(primaries), nil  after
\* `resolves` earlier selector calls and the replay-LSN queries replayQ
ToPrimary(c, pick, resolves, replayQ) ==
    [db |-> Primary(Resolve(c.nPrimaries, pick)), err |-> ErrNone,
     resolves |-> resolves + 1, replayQ |-> replayQ]

ToPrimaryOnly(c, pick) == ToPrimary(c, pick, 0, <<>>)

\* return r.dbProvider.LoadBalancer().Resolve(replicas), nil
ToReplica(c, pick) ==
    [db |-> Replica(Resolve(c.nReplicas, pick)), err |-> ErrNone,
     resolves |-> 1, replayQ |-> <<>>]

\* a failure that returns no handle and no error
RouteFailSilently(err, resolves, replayQ) ==
    [db |-> NilDB, err |-> ErrNone, resolves |-> resolves, replayQ |-> replayQ]

\* return nil, fmt.Errorf(err)
RouteFail(err, resolves, replayQ) ==
    [db |-> NilDB, err |-> err, resolves |-> resolves, replayQ |-> replayQ]

NeverForced(tok) == FALSE

\* if lsnCtx != nil && lsnCtx.ForceMaster
ForcedMaster(tok) == tok.present /\ tok.ForceMaster

\* func (r *CausalRouter) RouteQuery(ctx, queryType) (*sql.DB, error)
\* tok is GetLSNContext(ctx).
RouteQuery(c, tok, queryType, env) ==
    IF ~c.Enabled THEN RouteFail(ErrNotEnabled, 0, <<>>)
    ELSE IF c.nPrimaries = 0 THEN RouteFail(ErrNoPrimary, 0, <<>>)
    ELSE IF ForcedMaster(tok) THEN ToPrimary(c, env.pickP, 0, <<>>)
    ELSE IF queryType = QueryTypeWrite THEN ToPrimary(c, env.pickP, 0, <<>>)
    ELSE IF c.Level = ReadYourWrites /\ tok.present /\ ~IsZero(tok.RequiredLSN)
    THEN LET s == shouldUseReplica(c, tok.RequiredLSN, env)
         IN  IF s.use
             THEN [db |-> s.db, err |-> ErrNone, resolves |-> s.resolves,
                   replayQ |-> s.replayQ]
             ELSE IF c.FallbackToMaster
             THEN ToPrimary(c, env.pickP, s.resolves, s.replayQ)
             ELSE RouteFail(ErrNoReplicaCaughtUp, s.resolves, s.replayQ)
    ELSE IF c.Level \in {ReadYourWrites, NoneCausalConsistency}
    THEN IF c.nReplicas > 0
         THEN ToReplica(c, env.pickR)
         ELSE ToPrimary(c, env.pickP, 0, <<>>)
    ELSE IF c.Level = StrongConsistency THEN ToPrimary(c, env.pickP, 0, <<>>)
    ELSE IF c.FallbackToMaster THEN ToPrimary(c, env.pickP, 0, <<>>)
    ELSE RouteFail(ErrUnableToRoute, 0, <<>>)

ErrMasterLSN == "failed to get master LSN after write"

\* the errors of ParseLSN: empty text, not two parts, a part that is no
\* 32-bit hex number
ErrParse == "invalid LSN"

\* an UpdateLSNAfterWrite that stores what the WAL-LSN query returned before
\* it looks at the query's error
UpdateLSNAfterWriteUnchecked(c, tok, cached, db, pos, qerr) ==
    IF ~c.Enabled \/ db = NilDB
    THEN [lsn |-> ZeroLSN, err |-> ErrNone, callerTok |-> tok,
          lastMasterLSN |-> cached, walQ |-> <<>>]
    ELSE LET masterLSN == GetCurrentWALLSN(db, pos, qerr)
         IN  [lsn |-> masterLSN.lsn,
              err |-> IF masterLSN.ok THEN ErrNone ELSE ErrMasterLSN,
              callerTok |-> IF tok.present
                            THEN [tok EXCEPT !.RequiredLSN = masterLSN.lsn]
                            ELSE tok,
              lastMasterLSN |-> masterLSN.lsn, walQ |-> <<db>>]

\* an UpdateLSNAfterWrite without the early return for a disabled router or
\* a nil handle
UpdateLSNAfterWriteEager(c, tok, cached, db, pos, qerr) ==
    LET masterLSN == GetCurrentWALLSN(db, pos, qerr)
    IN  IF ~masterLSN.ok
        THEN [lsn |-> ZeroLSN, err |-> ErrMasterLSN, callerTok |-> tok,
              lastMasterLSN |-> cached, walQ |-> <<db>>]
        ELSE [lsn |-> masterLSN.lsn, err |-> ErrNone,
              callerTok |-> IF tok.present
                            THEN [tok EXCEPT !.RequiredLSN = masterLSN.lsn]
                            ELSE tok,
              lastMasterLSN |-> masterLSN.lsn, walQ |-> <<db>>]

\* func (r *CausalRouter) UpdateLSNAfterWrite(ctx, db) (LSN, error)
\* tok is the token of the caller's ctx, cached is r.lastMasterLSN, pos the
\* WAL position of db, qerr a failing WAL-LSN query.  callerTok is the token
\* the caller's ctx carries afterwards: a token the ctx already carried is
\* updated through its pointer, a token created here is attached to the
\* function's own copy of ctx only.
UpdateLSNAfterWrite(c, tok, cached, db, pos, qerr) ==
    IF ~c.Enabled \/ db = NilDB
    THEN [lsn |-> ZeroLSN, err |-> ErrNone, callerTok |-> tok,
          lastMasterLSN |-> cached, walQ |-> <<>>]
    ELSE LET masterLSN == GetCurrentWALLSN(db, pos, qerr)
         IN  IF ~masterLSN.ok
             THEN [lsn |-> ZeroLSN, err |-> ErrMasterLSN, callerTok |-> tok,
                   lastMasterLSN |-> cached, walQ |-> <<db>>]
             ELSE [lsn |-> masterLSN.lsn, err |-> ErrNone,
                   callerTok |-> IF tok.present
                                 THEN [tok EXCEPT !.RequiredLSN = masterLSN.lsn]
                                 ELSE tok,
                   lastMasterLSN |-> masterLSN.lsn, walQ |-> <<db>>]

\* -------------------------------------------------------------- the facade
\* outcomes of running a statement on a backend: success, a connection-level
\* error (isDBConnectionError), any other error
ResOK == "ok"
ResConn == "connection error"
ResErr == "backend error"
Results == {ResOK, ResConn, ResErr}

ErrOf(res) == IF res = ResOK THEN ErrNone ELSE res

\* New(): sqlDB.queryRouter != nil
HasRouter(c) == c.Enabled

ReadWriteAnyBackend(c, pick) ==
    IF c.nReplicas = 0 THEN Primary(Resolve(c.nPrimaries, pick)) ELSE Replica(1)

\* func (db *DB) ReadWrite() *sql.DB
ReadWrite(c, pick) == Primary(Resolve(c.nPrimaries, pick))

\* func (db *DB) ReadOnly() *sql.DB
ReadOnly(c, pickP, pickR) ==
    IF c.nReplicas = 0 THEN Primary(Resolve(c.nPrimaries, pickP))
    ELSE Replica(Resolve(c.nReplicas, pickR))

\* func (db *DB) ReadWithLSN(ctx) *sql.DB, with the routing error it swallows.
\* y.pickP2, y.pickR2 are the selector's choices of the ReadOnly() call.
ReadWithLSN(c, tok, env, y) ==
    IF ~HasRouter(c)
    THEN [db |-> ReadOnly(c, y.pickP2, y.pickR2), routeErr |-> ErrNone,
          resolves |-> 1, replayQ |-> <<>>]
    ELSE LET r == RouteQuery(c, tok, QueryTypeRead, env)
         IN  IF r.err # ErrNone
             THEN [db |-> ReadOnly(c, y.pickP2, y.pickR2), routeErr |-> r.err,
                   resolves |-> r.resolves + 1, replayQ |-> r.replayQ]
             ELSE [db |-> r.db, routeErr |-> ErrNone,
                   resolves |-> r.resolves, replayQ |-> r.replayQ]

\* the choice of curDB in QueryContext and QueryRowContext: queryType is
\* db.queryTypeChecker.Check(query)
curDB(c, tok, queryType, env, y) ==
    IF queryType = QueryTypeWrite
    THEN [db |-> ReadWrite(c, env.pickP), routeErr |-> ErrNone,
          resolves |-> 1, replayQ |-> <<>>]
    ELSE IF HasRouter(c) THEN ReadWithLSN(c, tok, env, y)
    ELSE [db |-> ReadOnly(c, y.pickP2, y.pickR2), routeErr |-> ErrNone,
          resolves |-> 1, replayQ |-> <<>>]

\* a replica chosen without a successful replay-LSN query against it
Unasked(sel) ==
    /\ sel.db.kind = "replica"
    /\ ~(sel.replayQ # <<>> /\ sel.replayQ[1].ok /\ sel.replayQ[1].db = sel.db)

\* the replay position of the replica a statement runs on: the one it
\* reported when the router asked it, x.xpos when it was not asked
ExecReplay(sel, x) ==
    IF sel.db.kind # "replica" THEN 0
    ELSE IF Unasked(sel) THEN x.xpos
    ELSE sel.replayQ[1].pos

\* a QueryContext that falls back to a primary on a connection error of any
\* statement, writes included
QueryContextRetryAll(c, queryType, sel, x) ==
    IF x.res1 = ResConn
    THEN [db |-> ReadWrite(c, x.pickP3), err |-> ErrOf(x.res2),
          execOn |-> <<sel.db, ReadWrite(c, x.pickP3)>>,
          outcomes |-> <<x.res1, x.res2>>,
          routeErr |-> sel.routeErr, resolves |-> sel.resolves + 1,
          captures |-> <<>>, execReplay |-> 0]
    ELSE [db |-> sel.db, err |-> ErrOf(x.res1), execOn |-> <<sel.db>>,
          outcomes |-> <<x.res1>>,
          routeErr |-> sel.routeErr, resolves |-> sel.resolves,
          captures |-> <<>>, execReplay |-> ExecReplay(sel, x)]

\* func (db *DB) QueryContext(ctx, query, args...) (*sql.Rows, error)
\* sel is the curDB chosen, x.res1 the outcome of the statement on it, x.res2
\* its outcome on the primary x.pickP3 of the connection-error fallback.
\* execOn lists the backends the statement ran on, outcomes its outcome on
\* each of them, captures the backends passed to UpdateLSNAfterWrite.
QueryContext(c, queryType, sel, x) ==
    LET writeFlag == queryType = QueryTypeWrite
    IN  IF x.res1 = ResConn /\ ~writeFlag
        THEN [db |-> ReadWrite(c, x.pickP3), err |-> ErrOf(x.res2),
              execOn |-> <<sel.db, ReadWrite(c, x.pickP3)>>,
              outcomes |-> <<x.res1, x.res2>>,
              routeErr |-> sel.routeErr, resolves |-> sel.resolves + 1,
              captures |-> <<>>, execReplay |-> 0]
        ELSE [db |-> sel.db, err |-> ErrOf(x.res1), execOn |-> <<sel.db>>,
              outcomes |-> <<x.res1>>,
              routeErr |-> sel.routeErr, resolves |-> sel.resolves,
              captures |-> <<>>, execReplay |-> ExecReplay(sel, x)]

\* func (db *DB) QueryRowContext(ctx, query, args...) *sql.Row: the error
\* is row.Err()
QueryRowContext(c, queryType, sel, x) ==
    LET writeFlag == queryType = QueryTypeWrite
    IN  IF x.res1 = ResConn /\ ~writeFlag
        THEN [db |-> ReadWrite(c, x.pickP3), err |-> ErrOf(x.res2),
              execOn |-> <<sel.db, ReadWrite(c, x.pickP3)>>,
              outcomes |-> <<x.res1, x.res2>>,
              routeErr |-> sel.routeErr, resolves |-> sel.resolves + 1,
              captures |-> <<>>, execReplay |-> 0]
        ELSE [db |-> sel.db, err |-> ErrOf(x.res1), execOn |-> <<sel.db>>,
              outcomes |-> <<x.res1>>,
              routeErr |-> sel.routeErr, resolves |-> sel.resolves,
              captures |-> <<>>, execReplay |-> ExecReplay(sel, x)]

\* func (db *DB) ExecContext(ctx, query, args...) (sql.Result, error)
ExecContext(c, pick, res) ==
    LET usedDB == ReadWrite(c, pick)
    IN  [db |-> usedDB, err |-> ErrOf(res), execOn |-> <<usedDB>>,
         outcomes |-> <<res>>,
         routeErr |-> ErrNone, resolves |-> 1, captures |-> <<>>,
         execReplay |-> 0]

\* -------------------------------------------------------- the transaction
\* no transaction; tx is the backend the *sql.Tx was begun on, queryRouter
\* is whether tx.queryRouter is non-nil, wrote whether a statement classified
\* as a write succeeded in the transaction
NoTx ==
    [open |-> FALSE, sourceDB |-> NilDB, tx |-> NilDB, queryRouter |-> FALSE,
     writesOccurred |-> FALSE, wrote |-> FALSE]

\* a BeginTx that begins the transaction on the backend ReadOnly selects
BeginTxOnReplica(c, pick, res) ==
    LET sourceDB == ReadOnly(c, pick, pick)
    IN  IF res # ResOK
        THEN [tx |-> NoTx, err |-> ErrOf(res), db |-> sourceDB]
        ELSE [tx |-> [open |-> TRUE, sourceDB |-> sourceDB, tx |-> sourceDB,
                      queryRouter |-> FALSE, writesOccurred |-> FALSE,
                      wrote |-> FALSE],
              err |-> ErrNone, db |-> sourceDB]

\* func (db *DB) BeginTx(ctx, opts) (Tx, error): res is the outcome of
\* sourceDB.BeginTx; the tx literal sets sourceDB, tx (begun on sourceDB)
\* and queryTypeChecker
BeginTx(c, pick, res) ==
    LET sourceDB == ReadWrite(c, pick)
    IN  IF res # ResOK
        THEN [tx |-> NoTx, err |-> ErrOf(res), db |-> sourceDB]
        ELSE [tx |-> [open |-> TRUE, sourceDB |-> sourceDB, tx |-> sourceDB,
                      queryRouter |-> FALSE, writesOccurred |-> FALSE,
                      wrote |-> FALSE],
              err |-> ErrNone, db |-> sourceDB]

\* func (t *tx) markWriteOperation(ctx, err)
markWriteOperation(t, err) ==
    IF err = ErrNone THEN [t EXCEPT !.writesOccurred = TRUE] ELSE t

\* func (t *tx) trackLSNAfterWrite(ctx, err): tok is the token of ctx, the
\* error of UpdateLSNAfterWrite is dropped
trackLSNAfterWrite(c, t, tok, cached, err, pos, qerr) ==
    IF err = ErrNone /\ t.queryRouter /\ t.sourceDB # NilDB
    THEN LET u == UpdateLSNAfterWrite(c, tok, cached, t.sourceDB, pos, qerr)
         IN  [captures |-> <<t.sourceDB>>, lastMasterLSN |-> u.lastMasterLSN,
              walQ |-> u.walQ]
    ELSE [captures |-> <<>>, lastMasterLSN |-> cached, walQ |-> <<>>]

\* func (t *tx) Commit() error: res is the outcome of t.tx.Commit(), the
\* capture runs on context.Background(), which carries no token
Commit(c, t, cached, res, pos, qerr) ==
    LET err == ErrOf(res)
        tr == IF err = ErrNone /\ t.writesOccurred
              THEN trackLSNAfterWrite(c, t, NoToken, cached, err, pos, qerr)
              ELSE [captures |-> <<>>, lastMasterLSN |-> cached, walQ |-> <<>>]
    IN  [err |-> err, captures |-> tr.captures, lastMasterLSN |-> tr.lastMasterLSN,
         walQ |-> tr.walQ]

\* func (t *tx) Rollback() error
Rollback(t, res) == [err |-> ErrOf(res), captures |-> <<>>]

\* func (t *tx) ExecContext(ctx, query, args...) (sql.Result, error)
TxExecContext(t, res) ==
    [tx |-> markWriteOperation(t, ErrOf(res)), err |-> ErrOf(res), captures |-> <<>>]

\* func (t *tx) QueryContext(ctx, query, args...) (*sql.Rows, error):
\* queryType is t.queryTypeChecker.Check(query), the checker BeginTx set
TxQueryContext(t, queryType, res) ==
    LET writeFlag == queryType = QueryTypeWrite
    IN  [tx |-> IF writeFlag THEN markWriteOperation(t, ErrOf(res)) ELSE t,
         err |-> ErrOf(res), captures |-> <<>>]

\* func (t *tx) QueryRowContext(ctx, query, args...) *sql.Row
TxQueryRowContext(t, queryType, res) ==
    LET writeFlag == queryType = QueryTypeWrite
    IN  [tx |-> IF writeFlag THEN markWriteOperation(t, ErrOf(res)) ELSE t,
         err |-> ErrOf(res), captures |-> <<>>]

\* ---------------------------------------------------- prepared statements
\* a *sql.Stmt: the backend it is prepared on, and whether it is bound to the
\* transaction begun on that backend; NilSQLStmt is the nil *sql.Stmt
SQLStmt(db) == [on |-> db, inTx |-> FALSE]
NilSQLStmt == [on |-> NilDB, inTx |-> FALSE]

\* Stmt values: NoStmt is the nil Stmt
NoStmt ==
    [present |-> FALSE, primaryStmts |-> <<>>, replicaStmts |-> <<>>,
     dbStmt |-> <<>>, writeFlag |-> FALSE]

\* the backends of a configuration in the order primaries, replicas: the
\* keys of the per-backend statement map
Backends(c) ==
    [k \in 1..(c.nPrimaries + c.nReplicas) |->
        IF k <= c.nPrimaries THEN Primary(k) ELSE Replica(k - c.nPrimaries)]

\* s.dbStmt[db]: the map is kept as the sequence of its values in the order
\* of Backends(c)
StmtOf(c, s, db) ==
    IF db.kind = "primary" THEN s.dbStmt[db.idx] ELSE s.dbStmt[c.nPrimaries + db.idx]

\* func (db *DB) PrepareContext(ctx, query) (Stmt, error): resP[i], resR[i]
\* are the outcomes of PrepareContext on primary i and on replica i; a
\* failed prepare yields the nil *sql.Stmt, and the map is written before
\* the connection-error fallback replaces the replica's list slot
PrepareContext(c, queryType, resP, resR) ==
    LET primaryStmts == [i \in 1..c.nPrimaries |->
                            IF resP[i] = ResOK THEN SQLStmt(Primary(i)) ELSE NilSQLStmt]
        prepared == [i \in 1..c.nReplicas |->
                        IF resR[i] = ResOK THEN SQLStmt(Replica(i)) ELSE NilSQLStmt]
        roStmts == [i \in 1..c.nReplicas |->
                       IF resR[i] = ResConn THEN primaryStmts[1] ELSE prepared[i]]
        errPrimaries == \E i \in 1..c.nPrimaries : resP[i] # ResOK
        errReplicas == \E i \in 1..c.nReplicas : resR[i] = ResErr
    IN  IF errPrimaries \/ errReplicas
        THEN [stmt |-> NoStmt,
              err |-> IF errPrimaries
                      THEN ErrOf(resP[CHOOSE i \in 1..c.nPrimaries : resP[i] # ResOK])
                      ELSE ResErr]
        ELSE [stmt |-> [present |-> TRUE, primaryStmts |-> primaryStmts,
                        replicaStmts |-> roStmts,
                        dbStmt |-> primaryStmts \o prepared,
                        writeFlag |-> queryType = QueryTypeWrite],
              err |-> ErrNone]

\* newSingleDBStmt(sourceDB, st, writeFlag): a Stmt over the one statement
\* st, keyed by sourceDB
newSingleDBStmt(sourceDB, st, writeFlag) ==
    [present |-> TRUE, primaryStmts |-> <<st>>, replicaStmts |-> <<>>,
     dbStmt |-> <<st>>, writeFlag |-> writeFlag]

\* (s *stmt) stmtForDB(db): the statement the map holds for db
stmtForDB(c, s, db) == StmtOf(c, s, db)

\* (tx *sql.Tx) StmtContext(ctx, st): the transaction-specific statement of
\* st, on the connection of the transaction begun on backend txdb
SQLTxStmt(txdb, st) == [on |-> txdb, inTx |-> TRUE]

\* func (t *tx) PrepareContext(ctx, query) (Stmt, error): res is the outcome
\* of t.tx.PrepareContext
TxPrepareContext(t, res) ==
    IF res # ResOK THEN [stmt |-> NoStmt, err |-> ErrOf(res)]
    ELSE [stmt |-> newSingleDBStmt(t.sourceDB, [on |-> t.tx, inTx |-> TRUE], TRUE),
          err |-> ErrNone]

\* func (t *tx) StmtContext(ctx, s Stmt) Stmt, for s a *stmt of the facade
TxStmtContext(c, t, s) ==
    [stmt |-> newSingleDBStmt(t.sourceDB,
                              SQLTxStmt(t.tx, stmtForDB(c, s, t.sourceDB)), TRUE),
     err |-> ErrNone]

\* ------------------------------------------------------ the other routers
\* the outcome of a RouteQuery of these routers: they fail without a primary
\* only, and every configuration has one
Routed(db) == [db |-> db, err |-> ErrNone]

\* func (r *SimpleRouter) RouteQuery(ctx, queryType) (*sql.DB, error)
SimpleRouterRouteQuery(c, queryType, pickP, pickR) ==
    CASE queryType = QueryTypeWrite -> Routed(Primary(Resolve(c.nPrimaries, pickP)))
      [] queryType = QueryTypeRead ->
            IF c.nReplicas > 0
            THEN Routed(Replica(Resolve(c.nReplicas, pickR)))
            ELSE Routed(Primary(Resolve(c.nPrimaries, pickP)))
      [] OTHER -> Routed(Primary(Resolve(c.nPrimaries, pickP)))

\* func (r *RandomRouter) RouteQuery(ctx, queryType) (*sql.DB, error): draw
\* is r.rand.Intn of the call, counted from 1
RandomRouterRouteQuery(c, queryType, draw) ==
    CASE queryType = QueryTypeWrite -> Routed(Primary(draw))
      [] queryType = QueryTypeRead -> Routed(Backends(c)[draw])
      [] OTHER -> Routed(Primary(draw))

\* the values r.rand.Intn can return in RandomRouter.RouteQuery
RandomDraws(c, queryType) ==
    IF queryType = QueryTypeRead THEN 1..(c.nPrimaries + c.nReplicas)
    ELSE 1..c.nPrimaries

\* func NewRoundRobinRouter(dbProvider) *RoundRobinRouter
NewRoundRobinRouter == [primariesIndex |-> 0, replicasIndex |-> 0]

\* func (r *RoundRobinRouter) RouteQuery(ctx, queryType) (*sql.DB, error):
\* the indexes are kept modulo the length of their list
RoundRobinRouterRouteQuery(c, r, queryType) ==
    LET fromPrimaries ==
            [db |-> Primary((r.primariesIndex % c.nPrimaries) + 1), err |-> ErrNone,
             router |-> [r EXCEPT !.primariesIndex = (@ + 1) % c.nPrimaries]]
    IN  CASE queryType = QueryTypeWrite -> fromPrimaries
          [] queryType = QueryTypeRead ->
                IF c.nReplicas > 0
                THEN [db |-> Replica((r.replicasIndex % c.nReplicas) + 1),
                      err |-> ErrNone,
                      router |-> [r EXCEPT !.replicasIndex = (@ + 1) % c.nReplicas]]
                ELSE fromPrimaries
          [] OTHER -> fromPrimaries

\* ------------------------------------------------- the checker registry
\* durations are counted in milliseconds
\* Timeout: 5 * time.Second of DefaultCausalConsistencyConfig
DefaultTimeout == 5000
\* queryTimeout: 3 * time.Second of NewCausalRouter
DefaultQueryTimeout == 3000
\* the values an application hands to WithLSNQueryTimeout
Timeouts == {1000, DefaultQueryTimeout, DefaultTimeout}

\* the goroutines that call into the registry
Procs == 1..MaxProcs

\* func DefaultCausalConsistencyConfig() *CausalConsistencyConfig
DefaultCausalConsistencyConfig ==
    [Enabled |-> FALSE, Level |-> ReadYourWrites, FallbackToMaster |-> TRUE,
     Timeout |-> DefaultTimeout]

\* a nil *CausalConsistencyConfig
NilConfig == [Enabled |-> FALSE, Level |-> "nil", FallbackToMaster |-> FALSE,
              Timeout |-> 0]

\* func defaultOption() *Option: PrimaryDBs and ReplicaDBs are the lengths of
\* the backend lists, QueryRouter whether a router was handed in
defaultOption ==
    [PrimaryDBs |-> 0, ReplicaDBs |-> 0, QueryRouter |-> FALSE,
     CCConfig |-> DefaultCausalConsistencyConfig]

\* func WithPrimaryDBs(primaryDBs ...*sql.DB) OptionFunc
WithPrimaryDBs(o, n) == [o EXCEPT !.PrimaryDBs = n]

\* func WithReplicaDBs(replicaDBs ...*sql.DB) OptionFunc
WithReplicaDBs(o, n) == [o EXCEPT !.ReplicaDBs = n]

\* func WithCausalConsistency(router QueryRouter) OptionFunc
WithCausalConsistency(o, router) ==
    IF router THEN [o EXCEPT !.QueryRouter = TRUE] ELSE o

\* func WithCausalConsistencyLevel(level) OptionFunc, applied to the
\* configuration
WithCausalConsistencyLevel(config, level) ==
    [config EXCEPT !.Level = level, !.Enabled = TRUE]

\* func WithLSNQueryTimeout(timeout) OptionFunc, applied to the configuration
WithLSNQueryTimeout(config, timeout) ==
    [config EXCEPT !.Timeout = timeout, !.Enabled = TRUE]

\* func WithMasterFallback(fallback bool) OptionFunc, applied to the
\* configuration
WithMasterFallback(config, fallback) ==
    [config EXCEPT !.FallbackToMaster = fallback, !.Enabled = TRUE]

\* func WithCausalConsistencyConfig(config) OptionFunc
WithCausalConsistencyConfig(o, config) ==
    IF config # NilConfig THEN [o EXCEPT !.CCConfig = config] ELSE o

\* a nil *DB and a nil QueryRouter
NoDB == [present |-> FALSE, primaries |-> 0, replicas |-> 0,
         queryRouter |-> NilConfig]

\* a New that builds the router whatever the configuration says
NewAlwaysRouted(o) ==
    IF o.PrimaryDBs = 0 THEN [panic |-> TRUE, db |-> NoDB]
    ELSE [panic |-> FALSE,
          db |-> [present |-> TRUE, primaries |-> o.PrimaryDBs,
                  replicas |-> o.ReplicaDBs,
                  queryRouter |-> [o.CCConfig EXCEPT !.Enabled = TRUE]]]

\* func New(opts ...OptionFunc) *DB after the options were applied to o:
\* queryRouter is the configuration of the CausalRouter built, NilConfig
\* when none was built
New(o) ==
    IF o.PrimaryDBs = 0 THEN [panic |-> TRUE, db |-> NoDB]
    ELSE [panic |-> FALSE,
          db |-> [present |-> TRUE, primaries |-> o.PrimaryDBs,
                  replicas |-> o.ReplicaDBs,
                  queryRouter |-> IF o.CCConfig # NilConfig /\ o.CCConfig.Enabled
                                  THEN o.CCConfig ELSE NilConfig]]

\* func (db *DB) IsCausalConsistencyEnabled() bool
IsCausalConsistencyEnabled(db) == db.queryRouter # NilConfig

\* the lists and the router of a facade as the routing functions take them
FacadeOf(db) ==
    [Enabled |-> db.queryRouter # NilConfig,
     Level |-> IF db.queryRouter # NilConfig THEN db.queryRouter.Level
               ELSE ReadYourWrites,
     FallbackToMaster |-> db.queryRouter.FallbackToMaster,
     nPrimaries |-> db.primaries, nReplicas |-> db.replicas]

\* a goroutine outside UpdateLSNAfterWrite and GetCurrentMasterLSN
IdleCapture ==
    [pc |-> "idle", op |-> "", lsn |-> ZeroLSN, commit |-> ZeroLSN,
     err |-> ErrNone]

\* no goroutine is inside the two functions, GetLastKnownMasterLSN was not
\* called yet
NoCaptures ==
    [g |-> [p \in Procs |-> IdleCapture], seen |-> ZeroLSN, before |-> ZeroLSN]

\* a call of New: o the Option the options are applied to, count how many
\* were applied, plain whether all of them were WithPrimaryDBs or
\* WithReplicaDBs, explicit whether one of them was handed Enabled = true or
\* a level, db the facade returned
NewOptions ==
    [phase |-> "applying", o |-> defaultOption, count |-> 0, plain |-> TRUE,
     explicit |-> FALSE, db |-> NoDB]

\* the call of New that built the facade of configuration c
OptionsOf(c) ==
    LET o == [PrimaryDBs |-> c.nPrimaries, ReplicaDBs |-> c.nReplicas,
              QueryRouter |-> FALSE,
              CCConfig |-> [Enabled |-> c.Enabled, Level |-> c.Level,
                            FallbackToMaster |-> c.FallbackToMaster,
                            Timeout |-> DefaultTimeout]]
    IN  [phase |-> "built", o |-> o, count |-> 0, plain |-> FALSE,
         explicit |-> c.Enabled, db |-> New(o).db]

\* func NewCausalRouter(dbProvider, config) *CausalRouter
NewCausalRouter(config) == [config |-> config, queryTimeout |-> DefaultQueryTimeout]

\* *PGLSNChecker; id tells the allocations apart, NoChecker is nil
NoChecker == [present |-> FALSE, id |-> 0, db |-> NilDB, queryTimeout |-> 0]
NewChecker(id, db, queryTimeout) ==
    [present |-> TRUE, id |-> id, db |-> db, queryTimeout |-> queryTimeout]

\* the keys a checkers map can hold for a configuration
CheckerKeys(c) ==
    {Primary(i) : i \in 1..c.nPrimaries} \cup {Replica(i) : i \in 1..c.nReplicas}

\* a goroutine outside getOrCreateChecker; slow is whether the call went on
\* to the write lock
IdleProc ==
    [pc |-> "idle", db |-> NilDB, caller |-> "", checker |-> NoChecker, bound |-> 0,
     slow |-> FALSE]

\* getRegistry() on first use, the router New builds from a configuration
\* with the given Timeout, and the goroutines: mu.w is the holder of the
\* write lock (0: none), mu.r the holders of the read lock, allocated the
\* number of checkers created so far
NewRegistry(c, timeout) ==
    [router |-> NewCausalRouter(WithLSNQueryTimeout(DefaultCausalConsistencyConfig,
                                                    timeout)),
     checkers |-> [d \in CheckerKeys(c) |-> NoChecker],
     allocated |-> 0,
     mu |-> [w |-> 0, r |-> {}],
     g |-> [p \in Procs |-> IdleProc]]

\* getOrCreateChecker under the write lock without the second lookup
createAlways(checkers, allocated, db, queryTimeout) ==
    LET checker == NewChecker(allocated + 1, db, queryTimeout)
    IN  [checkers |-> [checkers EXCEPT ![db] = checker],
         allocated |-> allocated + 1, checker |-> checker]

\* getOrCreateChecker under the write lock: the second lookup, then the
\* creation of the checker and its entry
createIfAbsent(checkers, allocated, db, queryTimeout) ==
    IF checkers[db].present
    THEN [checkers |-> checkers, allocated |-> allocated, checker |-> checkers[db]]
    ELSE LET checker == NewChecker(allocated + 1, db, queryTimeout)
         IN  [checkers |-> [checkers EXCEPT ![db] = checker],
              allocated |-> allocated + 1, checker |-> checker]

\* ------------------------------------------------------ the HTTP transport
DefaultCookieName == "pg_min_lsn"
\* 5 * time.Minute, durations counted in milliseconds
DefaultCookieMaxAge == 300000
MsPerSecond == 1000

NoMiddleware ==
    [present |-> FALSE, cookieName |-> "", cookieMaxAge |-> 0, cookieSecure |-> FALSE]

\* func NewHTTPMiddleware(router, cookieName, maxAge, useSecureCookie)
NewHTTPMiddleware(cookieName, maxAge, useSecureCookie) ==
    [present |-> TRUE,
     cookieName |-> IF cookieName = "" THEN DefaultCookieName ELSE cookieName,
     cookieMaxAge |-> IF maxAge <= 0 THEN DefaultCookieMaxAge ELSE maxAge,
     cookieSecure |-> useSecureCookie]

NoCookie ==
    [present |-> FALSE, Name |-> "", Value |-> <<>>, MaxAge |-> 0, HttpOnly |-> FALSE,
     Secure |-> FALSE, Path |-> "", SameSite |-> ""]

\* a SetLSNCookie without the check for the zero LSN
SetLSNCookieUnguarded(lsn, cookieName, maxAge, secure) ==
    [present |-> TRUE,
     Name |-> IF cookieName = "" THEN DefaultCookieName ELSE cookieName,
     Value |-> String(lsn),
     MaxAge |-> (IF maxAge <= 0 THEN DefaultCookieMaxAge ELSE maxAge) \div MsPerSecond,
     HttpOnly |-> TRUE, Secure |-> secure, Path |-> "/", SameSite |-> "Lax"]

\* func SetLSNCookie(w, lsn, cookieName, maxAge, secure): the cookie added to
\* the response, NoCookie when none is
SetLSNCookie(lsn, cookieName, maxAge, secure) ==
    IF IsZero(lsn) THEN NoCookie
    ELSE [present |-> TRUE,
          Name |-> IF cookieName = "" THEN DefaultCookieName ELSE cookieName,
          Value |-> String(lsn),
          MaxAge |-> (IF maxAge <= 0 THEN DefaultCookieMaxAge ELSE maxAge) \div MsPerSecond,
          HttpOnly |-> TRUE, Secure |-> secure, Path |-> "/", SameSite |-> "Lax"]

NoReqCookie == [present |-> FALSE, Name |-> "", Value |-> <<>>]

\* func GetLSNFromCookie(r, cookieName) (LSN, bool): req is the cookie of the
\* request
GetLSNFromCookie(req, cookieName) ==
    IF req.present /\ req.Name = cookieName /\ req.Value # <<>>
           /\ ParseLSN(req.Value).ok
    THEN [lsn |-> ParseLSN(req.Value).lsn, ok |-> TRUE]
    ELSE [lsn |-> ZeroLSN, ok |-> FALSE]

\* the response wrapper and the response under it: wroteHeader and
\* statusCode are the wrapper's fields, sent the status passed to the
\* wrapped writer (0: none), cookie the Set-Cookie header of the response
NoRequest ==
    [mw |-> NoMiddleware, phase |-> "idle", wroteHeader |-> FALSE, statusCode |-> 0,
     sent |-> 0, cookie |-> NoCookie]

\* a reset that takes the new response and context and leaves wroteHeader
\* and statusCode as the last request left them
resetWriterOnly(h) == [h EXCEPT !.sent = 0, !.cookie = NoCookie]

\* func (lrw *lsnResponseWriter) reset(ctx, w)
reset(h) ==
    [h EXCEPT !.wroteHeader = FALSE, !.statusCode = 0, !.sent = 0, !.cookie = NoCookie]

\* the handler of func (m *HTTPMiddleware) Middleware(next): the token put
\* on the request context
Middleware(m, req) ==
    LET c == GetLSNFromCookie(req, m.cookieName)
    IN  LSNContext(IF c.ok THEN c.lsn ELSE ZeroLSN, NoneCausalConsistency, FALSE, FALSE)

\* func (lrw *lsnResponseWriter) WriteHeader(statusCode): db is the backend
\* UpdateLSNAfterWrite asks, pos its WAL position, qerr a failing query
WriteHeader(h, c, tok, cached, statusCode, db, pos, qerr) ==
    IF h.wroteHeader
    THEN [http |-> h, tok |-> tok, lastMasterLSN |-> cached, captures |-> <<>>,
          walQ |-> <<>>]
    ELSE LET h1 == [h EXCEPT !.statusCode = statusCode, !.wroteHeader = TRUE,
                             !.sent = statusCode]
         IN  IF statusCode >= 200 /\ statusCode < 300 /\ tok.present
                    /\ tok.HasWriteOperation
             THEN LET u == UpdateLSNAfterWrite(c, tok, cached, db, pos, qerr)
                  IN  [http |-> IF u.err = ErrNone /\ ~IsZero(u.lsn)
                                THEN [h1 EXCEPT !.cookie =
                                         SetLSNCookie(u.lsn, h.mw.cookieName,
                                                      h.mw.cookieMaxAge,
                                                      h.mw.cookieSecure)]
                                ELSE h1,
                       tok |-> u.callerTok, lastMasterLSN |-> u.lastMasterLSN,
                       captures |-> <<db>>, walQ |-> u.walQ]
             ELSE [http |-> h1, tok |-> tok, lastMasterLSN |-> cached,
                   captures |-> <<>>, walQ |-> <<>>]

\* ------------------------------------------------------------------ state
VARIABLES
    cfg,            \* CausalConsistencyConfig and the backend lists of the facade
    wal,            \* wal[i]: WAL position of primary i
    ctxToken,       \* the token carried by the caller's context (NoToken: none)
    lastMasterLSN,  \* CausalRouter.lastMasterLSN
    lastWrite,      \* the last write this context made through the facade
    txn,            \* the transaction obtained from BeginTx
    http,           \* the request served through the middleware and its response
    last,           \* what the last call did and returned
    reg,            \* the checker registry, the router's timeout and the
                    \* goroutines inside getOrCreateChecker
    lb,             \* the counter of the facade's RoundRobinLoadBalancer
    rr,             \* primariesIndex and replicasIndex of a RoundRobinRouter
    opt,            \* the Option a call of New works on and what it built
    upd             \* the goroutines inside UpdateLSNAfterWrite and
                    \* GetCurrentMasterLSN and what GetLastKnownMasterLSN returned

vars == <<cfg, wal, ctxToken, lastMasterLSN, lastWrite, txn, http, last, reg, lb,
          rr, opt, upd>>

Configs ==
    [Enabled : BOOLEAN, Level : Levels, FallbackToMaster : BOOLEAN,
     nPrimaries : 1..MaxPrimaries, nReplicas : 0..MaxReplicas]

\* the tokens a caller can attach with WithLSNContext
Tokens ==
    {LSNContext(l, lv, f, FALSE) : l \in LSNs, lv \in {ReadYourWrites}, f \in BOOLEAN}

\* the environment of one routing decision: the selector's choice among the
\* primaries and among the replicas, the replay position of the replica
\* asked, whether the replay-LSN query fails
Envs(c) ==
    {e \in [pickP : 1..(IF c.nPrimaries = 0 THEN 1 ELSE c.nPrimaries),
            pickR : 1..(IF c.nReplicas = 0 THEN 1 ELSE c.nReplicas),
            rpos : 0..MaxPos, qerr : BOOLEAN] : e.qerr => e.rpos = 0}

\* the selector's choices in a ReadOnly() call: among the primaries when
\* there is no replica, among the replicas otherwise
Picks(c) ==
    [pickP2 : IF c.nReplicas = 0 THEN 1..c.nPrimaries ELSE {1},
     pickR2 : 1..(IF c.nReplicas = 0 THEN 1 ELSE c.nReplicas)]

\* the environment of running a statement on the backend chosen: the replay
\* position of a replica that was not asked for it, the outcome of the
\* statement there and, for the connection-error fallback of a statement
\* that is not a write, its primary and the outcome of the statement on it
ExecEnvs(c, queryType, sel) ==
    {x \in [xpos : IF Unasked(sel) THEN 0..MaxPos ELSE {0}, res1 : Results,
            pickP3 : 1..c.nPrimaries, res2 : Results] :
        (x.res1 # ResConn \/ queryType = QueryTypeWrite)
            => (x.res2 = ResOK /\ x.pickP3 = 1)}

\* the backends QueryContext and QueryRowContext can choose
Choices(c, tok, queryType) ==
    {curDB(c, tok, queryType, env, y) : env \in Envs(c), y \in Picks(c)}

\* what RouteQuery can return in configuration c for token tok
RouteOutcomes(c, tok, queryType) ==
    {RouteQuery(c, tok, queryType, env) : env \in Envs(c)}

NoWrite == [present |-> FALSE, db |-> NilDB, pos |-> 0, via |-> ""]

\* the call whose result the caller holds (a caller makes one call at a
\* time; op = "" when it holds none): op the call, qt the query type, db the handle
\* returned or executed on, err its error, resolves the selector calls,
\* replayQ the replay-LSN queries made, walQ the backends asked for their
\* WAL LSN, execOn the backends the statement ran on, captures the backends
\* passed to UpdateLSNAfterWrite, routeErr the routing error the facade
\* swallowed, execReplay the replay position of the replica the statement
\* ran on, lsn the LSN returned, tokBefore the token of the context before
\* the call, req the cookie of the request the middleware was entered with,
\* outcomes the outcome of the statement on each backend of execOn
Idle ==
    [op |-> "", qt |-> QueryTypeUnknown, db |-> NilDB, err |-> ErrNone, resolves |-> 0,
     replayQ |-> <<>>, walQ |-> <<>>, execOn |-> <<>>, routeErr |-> ErrNone,
     execReplay |-> 0, captures |-> <<>>, lsn |-> ZeroLSN, tokBefore |-> NoToken,
     req |-> NoReqCookie, outcomes |-> <<>>, stmt |-> NoStmt,
     query |-> <<>>, text |-> <<>>, other |-> ZeroLSN, n |-> 0,
     flags |-> <<>>]

\* the facade after New: every primary has written its log up to the last
\* position but one, no token, no transaction and no request exist
Init ==
    /\ cfg \in Configs
    /\ wal = [i \in 1..cfg.nPrimaries |-> MaxPos - 1]
    /\ ctxToken = NoToken
    /\ lastMasterLSN = ZeroLSN
    /\ lastWrite = NoWrite
    /\ txn = NoTx
    /\ http = NoRequest
    /\ last = Idle
    /\ reg = NewRegistry(cfg, DefaultTimeout)
    /\ lb = 0
    /\ rr = NewRoundRobinRouter
    /\ opt = OptionsOf(cfg)
    /\ upd = NoCaptures

\* ----------------------------------------------------------- router calls
\* ctx = WithLSNContext(ctx, tok): the caller derives a context with a token
WithLSNContext(tok) ==
    /\ last.op = ""
    /\ ctxToken' = tok
    /\ lastWrite' = NoWrite
    /\ last' = [Idle EXCEPT !.op = "WithLSNContext", !.tokBefore = ctxToken]
    /\ UNCHANGED <<opt, upd, rr, lb, reg, cfg, wal, lastMasterLSN, txn, http>>

\* router.RouteQuery(ctx, queryType)
RouteQueryCall(queryType) ==
    \E r \in RouteOutcomes(cfg, ctxToken, queryType) :
        /\ last.op = ""
        /\ last' = [Idle EXCEPT !.op = "RouteQuery", !.qt = queryType, !.db = r.db,
                       !.err = r.err, !.resolves = r.resolves, !.replayQ = r.replayQ,
                       !.tokBefore = ctxToken]
        /\ UNCHANGED <<opt, upd, rr, lb, reg, cfg, wal, ctxToken, lastMasterLSN, lastWrite, txn, http>>

\* router.UpdateLSNAfterWrite(ctx, db)
UpdateLSNAfterWriteCall(db, qerr) ==
    LET pos == IF db.kind = "primary" THEN wal[db.idx] ELSE 0
        u == UpdateLSNAfterWrite(cfg, ctxToken, lastMasterLSN, db, pos, qerr)
    IN  /\ last.op = ""
        /\ ctxToken' = u.callerTok
        /\ lastMasterLSN' = u.lastMasterLSN
        /\ last' = [Idle EXCEPT !.op = "UpdateLSNAfterWrite", !.db = db, !.err = u.err,
                       !.walQ = u.walQ, !.captures = <<db>>, !.lsn = u.lsn,
                       !.tokBefore = ctxToken]
        /\ UNCHANGED <<opt, upd, rr, lb, reg, cfg, wal, lastWrite, txn, http>>

Handles(c) ==
    {Primary(i) : i \in 1..c.nPrimaries} \cup {Replica(i) : i \in 1..c.nReplicas}
        \cup {NilDB}

\* ----------------------------------------------------------- facade calls
\* a statement classified Write that succeeded on a primary committed there
Committed(o, queryType) ==
    queryType = QueryTypeWrite /\ o.err = ErrNone /\ o.db.kind = "primary"

\* the effect of a facade call with outcome o on the database and on what
\* the context last wrote: a committed write advances its primary's WAL
FacadeEffect(op, queryType, o) ==
    /\ Committed(o, queryType) => wal[o.db.idx] < MaxPos
    /\ wal' = IF Committed(o, queryType)
              THEN [wal EXCEPT ![o.db.idx] = @ + 1] ELSE wal
    /\ lastWrite' = IF Committed(o, queryType)
                    THEN [present |-> TRUE, db |-> o.db, pos |-> wal[o.db.idx] + 1,
                          via |-> op]
                    ELSE lastWrite
    /\ last' = [Idle EXCEPT !.op = op, !.qt = queryType, !.db = o.db, !.err = o.err,
                   !.resolves = o.resolves, !.execOn = o.execOn,
                   !.outcomes = o.outcomes,
                   !.routeErr = o.routeErr, !.execReplay = o.execReplay,
                   !.captures = o.captures, !.tokBefore = ctxToken]

\* db.QueryContext(ctx, query)
QueryContextCall(queryType) ==
    /\ last.op = ""
    /\ \E sel \in Choices(cfg, ctxToken, queryType) :
        \E x \in ExecEnvs(cfg, queryType, sel) :
            FacadeEffect("QueryContext", queryType, QueryContext(cfg, queryType, sel, x))
    /\ UNCHANGED <<opt, upd, rr, lb, reg, cfg, ctxToken, lastMasterLSN, txn, http>>

\* db.QueryRowContext(ctx, query)
QueryRowContextCall(queryType) ==
    /\ last.op = ""
    /\ \E sel \in Choices(cfg, ctxToken, queryType) :
        \E x \in ExecEnvs(cfg, queryType, sel) :
            FacadeEffect("QueryRowContext", queryType,
                         QueryRowContext(cfg, queryType, sel, x))
    /\ UNCHANGED <<opt, upd, rr, lb, reg, cfg, ctxToken, lastMasterLSN, txn, http>>

\* db.ExecContext(ctx, query): the statement of an exec call is a write
ExecContextCall ==
    /\ last.op = ""
    /\ \E pick \in 1..cfg.nPrimaries, res \in Results :
            FacadeEffect("ExecContext", QueryTypeWrite, ExecContext(cfg, pick, res))
    /\ UNCHANGED <<opt, upd, rr, lb, reg, cfg, ctxToken, lastMasterLSN, txn, http>>

\* ------------------------------------------------------ transaction calls
\* the transaction wrote and its commit succeeded
TxCommitted(t, err) == t.wrote /\ err = ErrNone

\* db.BeginTx(ctx, opts)
BeginTxCall ==
    /\ last.op = ""
    /\ ~txn.open
    /\ \E pick \in 1..cfg.nPrimaries, res \in Results :
        LET b == BeginTx(cfg, pick, res)
        IN  /\ txn' = b.tx
            /\ last' = [Idle EXCEPT !.op = "BeginTx", !.db = b.db, !.err = b.err,
                           !.resolves = 1, !.tokBefore = ctxToken]
    /\ UNCHANGED <<opt, upd, rr, lb, reg, cfg, wal, ctxToken, lastMasterLSN, lastWrite, http>>

\* the effect of a statement of the transaction with outcome o
TxEffect(op, queryType, o) ==
    /\ txn' = [o.tx EXCEPT !.wrote = @ \/ (queryType = QueryTypeWrite /\ o.err = ErrNone)]
    /\ last' = [Idle EXCEPT !.op = op, !.qt = queryType, !.db = txn.sourceDB,
                   !.err = o.err, !.captures = o.captures,
                   !.execOn = <<txn.tx>>, !.tokBefore = ctxToken]
    /\ UNCHANGED <<opt, upd, rr, lb, reg, cfg, wal, ctxToken, lastMasterLSN, lastWrite, http>>

\* tx.ExecContext(ctx, query): queryType is the kind the checker gives the
\* statement, which ExecContext does not ask for
TxExecContextCall(queryType) ==
    /\ last.op = ""
    /\ txn.open
    /\ \E res \in Results :
        TxEffect("tx.ExecContext", queryType, TxExecContext(txn, res))

\* tx.QueryContext(ctx, query)
TxQueryContextCall(queryType) ==
    /\ last.op = ""
    /\ txn.open
    /\ \E res \in Results :
        TxEffect("tx.QueryContext", queryType, TxQueryContext(txn, queryType, res))

\* tx.QueryRowContext(ctx, query)
TxQueryRowContextCall(queryType) ==
    /\ last.op = ""
    /\ txn.open
    /\ \E res \in Results :
        TxEffect("tx.QueryRowContext", queryType,
                 TxQueryRowContext(txn, queryType, res))

\* the outcomes of PrepareContext on the primaries and on the replicas
PrepareResults(c) ==
    [resP : [1..c.nPrimaries -> Results], resR : [1..c.nReplicas -> Results]]

\* db.PrepareContext(ctx, query)
PrepareContextCall(queryType) ==
    /\ last.op = ""
    /\ \E r \in PrepareResults(cfg) :
        LET o == PrepareContext(cfg, queryType, r.resP, r.resR)
        IN  last' = [Idle EXCEPT !.op = "PrepareContext", !.qt = queryType,
                        !.err = o.err, !.stmt = o.stmt,
                        !.outcomes = r.resP \o r.resR, !.tokBefore = ctxToken]
    /\ UNCHANGED <<opt, upd, rr, lb, reg, cfg, wal, ctxToken, lastMasterLSN, lastWrite, txn, http>>

\* the statements db.PrepareContext returns
FacadeStmts(c) ==
    {PrepareContext(c, qt, r.resP, r.resR).stmt : qt \in QueryTypes, r \in PrepareResults(c)}
        \ {NoStmt}

\* tx.PrepareContext(ctx, query)
TxPrepareContextCall ==
    /\ last.op = ""
    /\ txn.open
    /\ \E res \in Results :
        LET o == TxPrepareContext(txn, res)
        IN  last' = [Idle EXCEPT !.op = "tx.PrepareContext", !.db = txn.sourceDB,
                        !.err = o.err, !.stmt = o.stmt, !.tokBefore = ctxToken]
    /\ UNCHANGED <<opt, upd, rr, lb, reg, cfg, wal, ctxToken, lastMasterLSN, lastWrite, txn, http>>

\* tx.StmtContext(ctx, s) for a statement s the facade prepared
TxStmtContextCall ==
    /\ last.op = ""
    /\ txn.open
    /\ \E s \in FacadeStmts(cfg) :
        LET o == TxStmtContext(cfg, txn, s)
        IN  last' = [Idle EXCEPT !.op = "tx.StmtContext", !.db = txn.sourceDB,
                        !.err = o.err, !.stmt = o.stmt, !.tokBefore = ctxToken]
    /\ UNCHANGED <<opt, upd, rr, lb, reg, cfg, wal, ctxToken, lastMasterLSN, lastWrite, txn, http>>

\* tx.Commit(): a committed transaction that wrote advances the WAL of its
\* primary; the capture sees the position after the commit
CommitCall ==
    /\ last.op = ""
    /\ txn.open
    /\ \E res \in Results, qerr \in BOOLEAN :
        LET i == txn.sourceDB.idx
            done == TxCommitted(txn, ErrOf(res))
            pos == IF done THEN wal[i] + 1 ELSE wal[i]
            o == Commit(cfg, txn, lastMasterLSN, res, pos, qerr)
        IN  /\ done => wal[i] < MaxPos
            /\ wal' = [wal EXCEPT ![i] = pos]
            /\ lastWrite' = IF done
                            THEN [present |-> TRUE, db |-> txn.sourceDB, pos |-> pos,
                                  via |-> "Commit"]
                            ELSE lastWrite
            /\ lastMasterLSN' = o.lastMasterLSN
            /\ txn' = [txn EXCEPT !.open = FALSE]
            /\ last' = [Idle EXCEPT !.op = "Commit", !.db = txn.sourceDB, !.err = o.err,
                           !.captures = o.captures, !.walQ = o.walQ,
                           !.tokBefore = ctxToken]
    /\ UNCHANGED <<opt, upd, rr, lb, reg, cfg, ctxToken, http>>

\* tx.Rollback()
RollbackCall ==
    /\ last.op = ""
    /\ txn.open
    /\ \E res \in Results :
        LET o == Rollback(txn, res)
        IN  /\ txn' = [txn EXCEPT !.open = FALSE]
            /\ last' = [Idle EXCEPT !.op = "Rollback", !.db = txn.sourceDB,
                           !.err = o.err, !.captures = o.captures,
                           !.tokBefore = ctxToken]
    /\ UNCHANGED <<opt, upd, rr, lb, reg, cfg, wal, ctxToken, lastMasterLSN, lastWrite, http>>

\* ------------------------------------------------------------- HTTP steps
\* the arguments NewHTTPMiddleware is called with: the zero values, which
\* take the defaults, and explicit ones with a fraction of a second
MiddlewareArgs ==
    {[cookieName |-> "", maxAge |-> 0, secure |-> FALSE],
     [cookieName |-> "lsn", maxAge |-> 1500, secure |-> TRUE]}

\* the cookie a request arrives with: none, one of another name, one of the
\* middleware's name holding an LSN in PostgreSQL's text form or no LSN
ReqCookies(m) ==
    {NoReqCookie} \cup
    {[present |-> TRUE, Name |-> n, Value |-> v] :
        n \in {m.cookieName, "other"},
        v \in {PGText(k) : k \in 0..MaxPos} \cup {<<>>, <<"x">>}}

\* the status codes a handler answers with, on both sides of the 2xx range
StatusCodes == {199, 200, 299, 300}

\* NewHTTPMiddleware(router, cookieName, maxAge, useSecureCookie)
NewHTTPMiddlewareCall ==
    /\ last.op = ""
    /\ ~http.mw.present
    /\ \E a \in MiddlewareArgs :
        http' = [http EXCEPT !.mw = NewHTTPMiddleware(a.cookieName, a.maxAge, a.secure)]
    /\ last' = [Idle EXCEPT !.op = "NewHTTPMiddleware"]
    /\ UNCHANGED <<opt, upd, rr, lb, reg, cfg, wal, ctxToken, lastMasterLSN, lastWrite, txn>>

\* a request enters the middleware: the token is put on its context, the
\* wrapper taken from the pool is reset, the handler starts
MiddlewareCall ==
    /\ last.op = ""
    /\ http.mw.present
    /\ http.phase = "idle"
    /\ \E req \in ReqCookies(http.mw) :
        /\ ctxToken' = Middleware(http.mw, req)
        /\ last' = [Idle EXCEPT !.op = "Middleware", !.tokBefore = ctxToken,
                       !.req = req]
    /\ http' = [reset(http) EXCEPT !.phase = "handling"]
    /\ lastWrite' = NoWrite
    /\ UNCHANGED <<opt, upd, rr, lb, reg, cfg, wal, lastMasterLSN, txn>>

\* the handler calls db.ExecContext(r.Context(), query)
HandlerExecContext ==
    /\ http.phase = "handling"
    /\ ExecContextCall

\* the handler calls db.QueryRowContext(r.Context(), query) with a statement
\* classified Write (INSERT ... RETURNING)
HandlerQueryRowContext ==
    /\ http.phase = "handling"
    /\ QueryRowContextCall(QueryTypeWrite)

\* the handler sets HasWriteOperation on the token of its context
HandlerMarksWrite ==
    /\ last.op = ""
    /\ http.phase = "handling"
    /\ ctxToken.present
    /\ ctxToken' = [ctxToken EXCEPT !.HasWriteOperation = TRUE]
    /\ last' = [Idle EXCEPT !.op = "MarkWrite", !.tokBefore = ctxToken]
    /\ UNCHANGED <<opt, upd, rr, lb, reg, cfg, wal, lastMasterLSN, lastWrite, txn, http>>

\* the handler calls w.WriteHeader(statusCode) on the wrapper
WriteHeaderCall ==
    /\ last.op = ""
    /\ http.phase = "handling"
    /\ \E statusCode \in StatusCodes, db \in Handles(cfg), qerr \in BOOLEAN :
        LET pos == IF db.kind = "primary" THEN wal[db.idx] ELSE 0
            o == WriteHeader(http, cfg, ctxToken, lastMasterLSN, statusCode, db, pos,
                             qerr)
        IN  /\ http' = o.http
            /\ ctxToken' = o.tok
            /\ lastMasterLSN' = o.lastMasterLSN
            /\ last' = [Idle EXCEPT !.op = "WriteHeader", !.db = db,
                           !.captures = o.captures, !.walQ = o.walQ,
                           !.tokBefore = ctxToken]
    /\ UNCHANGED <<opt, upd, rr, lb, reg, cfg, wal, lastWrite, txn>>

\* values of one half of an LSN with one hex digit, a letter digit, several
\* digits and the largest number of the model checker
HalfSamples == {0, 10, 255, 2147483647}

\* the LSNs a handler passes to SetLSNCookie
LSNSamples == {LSN(u, l) : u \in HalfSamples, l \in HalfSamples}

\* the handler calls SetLSNCookie(w, lsn, cookieName, maxAge, secure) itself,
\* with the cookie settings of the middleware; the response keeps the
\* Set-Cookie header added last
SetLSNCookieCall(lsn) ==
    LET c == SetLSNCookie(lsn, http.mw.cookieName, http.mw.cookieMaxAge,
                          http.mw.cookieSecure)
    IN  /\ last.op = ""
        /\ http.phase = "handling"
        /\ http' = IF c.present THEN [http EXCEPT !.cookie = c] ELSE http
        /\ last' = [Idle EXCEPT !.op = "SetLSNCookie", !.lsn = lsn,
                       !.tokBefore = ctxToken]
        /\ UNCHANGED <<opt, upd, rr, lb, reg, cfg, wal, ctxToken, lastMasterLSN, lastWrite, txn>>

\* the handler returns: the wrapper goes back to the pool as it is, the
\* request context is gone
ServeDone ==
    /\ last.op = ""
    /\ http.phase = "handling"
    /\ http' = [http EXCEPT !.phase = "idle", !.sent = 0, !.cookie = NoCookie]
    /\ ctxToken' = NoToken
    /\ lastWrite' = NoWrite
    /\ last' = [Idle EXCEPT !.op = "ServeDone", !.tokBefore = ctxToken]
    /\ UNCHANGED <<opt, upd, rr, lb, reg, cfg, wal, lastMasterLSN, txn>>

\* the caller takes the result of its call and goes on
Resume ==
    /\ last.op # ""
    /\ last' = Idle
    /\ UNCHANGED <<opt, upd, rr, lb, reg, cfg, wal, ctxToken, lastMasterLSN, lastWrite, txn, http>>

Next ==
    \/ \E tok \in Tokens : WithLSNContext(tok)
    \/ \E qt \in QueryTypes : RouteQueryCall(qt)
    \/ \E db \in Handles(cfg), qerr \in BOOLEAN : UpdateLSNAfterWriteCall(db, qerr)
    \/ Resume

NextFacade ==
    \/ \E tok \in Tokens : WithLSNContext(tok)
    \/ \E qt \in QueryTypes : RouteQueryCall(qt)
    \/ \E qt \in QueryTypes : QueryContextCall(qt)
    \/ \E qt \in QueryTypes : QueryRowContextCall(qt)
    \/ ExecContextCall
    \/ Resume

SpecFacade == Init /\ [][NextFacade]_vars

\* the facade and the router given write statements only: reads change
\* neither the token nor the backends, so the writes meet the same states
NextWrites ==
    \/ \E tok \in Tokens : WithLSNContext(tok)
    \/ RouteQueryCall(QueryTypeWrite)
    \/ QueryContextCall(QueryTypeWrite)
    \/ QueryRowContextCall(QueryTypeWrite)
    \/ ExecContextCall
    \/ Resume

SpecWrites == Init /\ [][NextWrites]_vars

\* transactions and the middleware read Enabled and the primaries of the
\* configuration only: the other fields stay at the values of
\* DefaultCausalConsistencyConfig, with every replica configured
InitDefaults ==
    /\ Init
    /\ cfg.Level = ReadYourWrites
    /\ cfg.FallbackToMaster
    /\ cfg.nReplicas = MaxReplicas

NextTx ==
    \/ BeginTxCall
    \/ \E qt \in QueryTypes : TxExecContextCall(qt)
    \/ \E qt \in QueryTypes : TxQueryContextCall(qt)
    \/ \E qt \in QueryTypes : TxQueryRowContextCall(qt)
    \/ TxPrepareContextCall
    \/ TxStmtContextCall
    \/ CommitCall
    \/ RollbackCall
    \/ \E tok \in Tokens : WithLSNContext(tok)
    \/ Resume

SpecTx == InitDefaults /\ [][NextTx]_vars

\* a caller that writes through the facade or in a transaction and captures
\* the LSN itself with router.UpdateLSNAfterWrite
NextCapture ==
    \/ \E tok \in Tokens : WithLSNContext(tok)
    \/ ExecContextCall
    \/ BeginTxCall
    \/ TxExecContextCall(QueryTypeWrite)
    \/ CommitCall
    \/ \E db \in Handles(cfg), qerr \in BOOLEAN : UpdateLSNAfterWriteCall(db, qerr)
    \/ Resume

SpecCapture == InitDefaults /\ [][NextCapture]_vars

NextHTTP ==
    \/ NewHTTPMiddlewareCall
    \/ MiddlewareCall
    \/ HandlerExecContext
    \/ HandlerQueryRowContext
    \/ HandlerMarksWrite
    \/ WriteHeaderCall
    \/ ServeDone
    \/ Resume

\* requests whose handlers set the cookie themselves or leave it to the
\* response wrapper, without statements
NextCookie ==
    \/ NewHTTPMiddlewareCall
    \/ MiddlewareCall
    \/ HandlerMarksWrite
    \/ WriteHeaderCall
    \/ \E lsn \in LSNSamples : SetLSNCookieCall(lsn)
    \/ ServeDone
    \/ Resume

SpecCookie == InitDefaults /\ [][NextCookie]_vars

SpecHTTP == InitDefaults /\ [][NextHTTP]_vars

\* ------------------------------------------------ LSN texts from outside
\* the characters of the texts handed to ParseLSN: digits, letter digits of
\* both cases, the separator and a character that is no hex digit
LSNChars == {"0", "1", "a", "A", "/", "G"}

\* the texts handed to ParseLSN, the empty text among them
LSNTexts == UNION {[1..n -> LSNChars] : n \in 0..MaxLSNText}

\* lsn, err := ParseLSN(s)
ParseLSNCall ==
    /\ last.op = ""
    /\ \E s \in LSNTexts :
           LET r == ParseLSN(s)
           IN  last' = [Idle EXCEPT !.op = "ParseLSN", !.query = s,
                           !.lsn = r.lsn,
                           !.err = IF r.ok THEN ErrNone ELSE ErrParse]
    /\ UNCHANGED <<opt, upd, cfg, wal, ctxToken, lastMasterLSN, lastWrite, txn, http,
                   reg, lb, rr>>

\* str := lsn.String() on the LSN ParseLSN returned without error
StringCall ==
    /\ last.op = "ParseLSN"
    /\ last.err = ErrNone
    /\ last' = [last EXCEPT !.op = "String", !.text = String(last.lsn)]
    /\ UNCHANGED <<opt, upd, cfg, wal, ctxToken, lastMasterLSN, lastWrite, txn, http,
                   reg, lb, rr>>

\* lsn.Compare(other) and the five comparison methods on the same pair:
\* flags holds LessThan, LessThanOrEqual, GreaterThan, GreaterThanOrEqual
\* and Equals in this order
CompareCall ==
    /\ last.op = ""
    /\ \E a \in WideLSNs, b \in WideLSNs :
           last' = [Idle EXCEPT !.op = "Compare", !.lsn = a, !.other = b,
                       !.n = Compare(a, b),
                       !.flags = <<LessThan(a, b), LessThanOrEqual(a, b),
                                   GreaterThan(a, b), GreaterThanOrEqual(a, b),
                                   Equals(a, b)>>]
    /\ UNCHANGED <<opt, upd, cfg, wal, ctxToken, lastMasterLSN, lastWrite, txn, http,
                   reg, lb, rr>>

\* lsn.Subtract(other)
SubtractCall ==
    /\ last.op = ""
    /\ \E a \in WideLSNs, b \in WideLSNs :
           last' = [Idle EXCEPT !.op = "Subtract", !.lsn = a, !.other = b,
                       !.n = Subtract(a, b)]
    /\ UNCHANGED <<opt, upd, cfg, wal, ctxToken, lastMasterLSN, lastWrite, txn, http,
                   reg, lb, rr>>

\* ------------------------------------- routers on any database provider
\* NewCausalRouter(dbProvider, config) on a provider of its own: the provider
\* may have no primary, which New() does not allow for the facade
ProviderConfigs ==
    [Enabled : BOOLEAN, Level : Levels, FallbackToMaster : BOOLEAN,
     nPrimaries : 0..MaxPrimaries, nReplicas : 0..MaxReplicas]

InitProviders ==
    /\ cfg \in ProviderConfigs
    /\ wal = [i \in 1..cfg.nPrimaries |-> MaxPos - 1]
    /\ ctxToken = NoToken
    /\ lastMasterLSN = ZeroLSN
    /\ lastWrite = NoWrite
    /\ txn = NoTx
    /\ http = NoRequest
    /\ last = Idle
    /\ reg = NewRegistry(cfg, DefaultTimeout)
    /\ lb = 0
    /\ rr = NewRoundRobinRouter
    /\ opt = NewOptions
    /\ upd = NoCaptures

NextProviders ==
    \/ \E tok \in Tokens : WithLSNContext(tok)
    \/ \E qt \in QueryTypes : RouteQueryCall(qt)
    \/ Resume

SpecProviders == InitProviders /\ [][NextProviders]_vars

\* ------------------------------------- concurrent captures on one router
\* Goroutines share the router, the first primary and one context token.
\* upd.g[p] is goroutine p: pc its position, op the function it is in, lsn
\* the masterLSN it read, commit the commit position of the write it made
\* before, err the error it returned.  upd.seen is what the last call of
\* GetLastKnownMasterLSN returned, upd.before the largest value the calls
\* before it returned.

\* goroutine p commits a write on the first primary and enters
\* UpdateLSNAfterWrite(ctx, primary) up to the call of GetCurrentWALLSN
WriteThenUpdateLSNAfterWrite(p) ==
    /\ upd.g[p].pc = "idle"
    /\ cfg.Enabled
    /\ wal[1] < MaxPos
    /\ wal' = [wal EXCEPT ![1] = @ + 1]
    /\ upd' = [upd EXCEPT !.g[p] = [IdleCapture EXCEPT
                   !.pc = "entered", !.op = "UpdateLSNAfterWrite",
                   !.commit = LSNOf(wal[1] + 1)]]
    /\ UNCHANGED <<cfg, ctxToken, lastMasterLSN, lastWrite, txn, http, last,
                   reg, lb, rr, opt>>

\* goroutine p enters GetCurrentMasterLSN(ctx) up to the call of
\* GetCurrentWALLSN on primaries[0]
GetCurrentMasterLSNCall(p) ==
    /\ upd.g[p].pc = "idle"
    /\ cfg.Enabled
    /\ cfg.nPrimaries > 0
    /\ upd' = [upd EXCEPT !.g[p] = [IdleCapture EXCEPT
                   !.pc = "entered", !.op = "GetCurrentMasterLSN"]]
    /\ UNCHANGED <<cfg, wal, ctxToken, lastMasterLSN, lastWrite, txn, http,
                   last, reg, lb, rr, opt>>

\* a write of another client commits on the first primary
OtherWrite ==
    /\ wal[1] < MaxPos
    /\ wal' = [wal EXCEPT ![1] = @ + 1]
    /\ UNCHANGED <<cfg, ctxToken, lastMasterLSN, lastWrite, txn, http, last,
                   reg, lb, rr, opt, upd>>

\* masterLSN, err := checker.GetCurrentWALLSN(ctx) in goroutine p; on an
\* error the function returns it
QueryWAL(p) ==
    /\ upd.g[p].pc = "entered"
    /\ \E qerr \in BOOLEAN :
           LET masterLSN == GetCurrentWALLSN(Primary(1), wal[1], qerr)
           IN  upd' = [upd EXCEPT !.g[p] =
                          IF masterLSN.ok
                          THEN [@ EXCEPT !.pc = "queried", !.lsn = masterLSN.lsn]
                          ELSE [@ EXCEPT !.pc = "returned", !.err = ErrMasterLSN]]
    /\ UNCHANGED <<cfg, wal, ctxToken, lastMasterLSN, lastWrite, txn, http,
                   last, reg, lb, rr, opt>>

\* r.mu.Lock(); r.lastMasterLSN = masterLSN; r.mu.Unlock() in goroutine p;
\* GetCurrentMasterLSN returns after it
StoreLastMasterLSN(p) ==
    /\ upd.g[p].pc = "queried"
    /\ lastMasterLSN' = upd.g[p].lsn
    /\ upd' = [upd EXCEPT !.g[p] =
                  IF @.op = "GetCurrentMasterLSN" THEN IdleCapture
                  ELSE [@ EXCEPT !.pc = "cached"]]
    /\ UNCHANGED <<cfg, wal, ctxToken, lastWrite, txn, http, last, reg, lb, rr,
                   opt>>

\* lsnCtx.RequiredLSN = masterLSN in goroutine p, on the token the context
\* carries, written in one piece; UpdateLSNAfterWrite returns after it
StoreRequiredLSN(p) ==
    /\ upd.g[p].pc = "cached"
    /\ ctxToken.present
    /\ ctxToken' = [ctxToken EXCEPT !.RequiredLSN = upd.g[p].lsn]
    /\ upd' = [upd EXCEPT !.g[p].pc = "returned"]
    /\ UNCHANGED <<cfg, wal, lastMasterLSN, lastWrite, txn, http, last, reg, lb,
                   rr, opt>>

\* the same store written half by half (the token has no lock): Upper
StoreRequiredLSNUpper(p) ==
    /\ upd.g[p].pc = "cached"
    /\ ctxToken.present
    /\ ctxToken' = [ctxToken EXCEPT !.RequiredLSN.Upper = upd.g[p].lsn.Upper]
    /\ upd' = [upd EXCEPT !.g[p].pc = "upper"]
    /\ UNCHANGED <<cfg, wal, lastMasterLSN, lastWrite, txn, http, last, reg, lb,
                   rr, opt>>

\* then Lower
StoreRequiredLSNLower(p) ==
    /\ upd.g[p].pc = "upper"
    /\ ctxToken' = [ctxToken EXCEPT !.RequiredLSN.Lower = upd.g[p].lsn.Lower]
    /\ upd' = [upd EXCEPT !.g[p].pc = "returned"]
    /\ UNCHANGED <<cfg, wal, lastMasterLSN, lastWrite, txn, http, last, reg, lb,
                   rr, opt>>

\* func (r *CausalRouter) GetLastKnownMasterLSN() LSN, called by a reader
GetLastKnownMasterLSNCall ==
    /\ upd' = [upd EXCEPT !.seen = lastMasterLSN,
                          !.before = IF LessThan(@, upd.seen) THEN upd.seen
                                     ELSE @]
    /\ UNCHANGED <<cfg, wal, ctxToken, lastMasterLSN, lastWrite, txn, http,
                   last, reg, lb, rr, opt>>

\* an enabled router on one primary whose log is empty, and a context that
\* carries a token the goroutines share
InitConcurrent ==
    /\ cfg \in Configs
    /\ cfg.Enabled /\ cfg.Level = ReadYourWrites /\ cfg.FallbackToMaster
    /\ cfg.nPrimaries = 1 /\ cfg.nReplicas = MaxReplicas
    /\ wal = [i \in 1..cfg.nPrimaries |-> 0]
    /\ ctxToken = LSNContext(ZeroLSN, ReadYourWrites, FALSE, FALSE)
    /\ lastMasterLSN = ZeroLSN
    /\ lastWrite = NoWrite
    /\ txn = NoTx
    /\ http = NoRequest
    /\ last = Idle
    /\ reg = NewRegistry(cfg, DefaultTimeout)
    /\ lb = 0
    /\ rr = NewRoundRobinRouter
    /\ opt = OptionsOf(cfg)
    /\ upd = NoCaptures

NextConcurrent ==
    \/ \E p \in Procs : WriteThenUpdateLSNAfterWrite(p)
    \/ \E p \in Procs : GetCurrentMasterLSNCall(p)
    \/ OtherWrite
    \/ \E p \in Procs : QueryWAL(p)
    \/ \E p \in Procs : StoreLastMasterLSN(p)
    \/ \E p \in Procs : StoreRequiredLSN(p)
    \/ \E p \in Procs : StoreRequiredLSNUpper(p)
    \/ \E p \in Procs : StoreRequiredLSNLower(p)
    \/ GetLastKnownMasterLSNCall

SpecConcurrent == InitConcurrent /\ [][NextConcurrent]_vars

\* ------------------------------------------------------ New and options
\* the configurations an application hands to WithCausalConsistencyConfig
OptionConfigs ==
    {NilConfig} \cup
    [Enabled : BOOLEAN, Level : Levels, FallbackToMaster : BOOLEAN,
     Timeout : {DefaultTimeout}]

\* one option function runs on the Option of the call of New
Applied(name, o, plain, explicit) ==
    /\ opt' = [opt EXCEPT !.o = o, !.count = @ + 1, !.plain = plain,
                          !.explicit = explicit]
    /\ last' = [Idle EXCEPT !.op = name]
    /\ UNCHANGED <<cfg, wal, ctxToken, lastMasterLSN, lastWrite, txn, http,
                   reg, lb, rr, upd>>

\* for _, optFunc := range opts { optFunc(opt) }: the next option of the list
OptionCall ==
    /\ last.op = ""
    /\ opt.phase = "applying"
    /\ opt.count < MaxOptions
    /\ \/ \E n \in 0..MaxPrimaries :
             Applied("WithPrimaryDBs", WithPrimaryDBs(opt.o, n), opt.plain,
                     opt.explicit)
       \/ \E n \in 0..MaxReplicas :
             Applied("WithReplicaDBs", WithReplicaDBs(opt.o, n), opt.plain,
                     opt.explicit)
       \/ \E router \in BOOLEAN :
             Applied("WithCausalConsistency",
                     WithCausalConsistency(opt.o, router), FALSE, opt.explicit)
       \/ \E level \in Levels :
             Applied("WithCausalConsistencyLevel",
                     [opt.o EXCEPT !.CCConfig =
                          WithCausalConsistencyLevel(@, level)], FALSE, TRUE)
       \/ \E timeout \in Timeouts :
             Applied("WithLSNQueryTimeout",
                     [opt.o EXCEPT !.CCConfig = WithLSNQueryTimeout(@, timeout)],
                     FALSE, opt.explicit)
       \/ \E fallback \in BOOLEAN :
             Applied("WithMasterFallback",
                     [opt.o EXCEPT !.CCConfig = WithMasterFallback(@, fallback)],
                     FALSE, opt.explicit)
       \/ \E config \in OptionConfigs :
             Applied("WithCausalConsistencyConfig",
                     WithCausalConsistencyConfig(opt.o, config), FALSE,
                     IF config # NilConfig THEN config.Enabled ELSE opt.explicit)

\* New after its loop: the panic without primaries, or the facade
NewReturns ==
    /\ last.op = ""
    /\ opt.phase = "applying"
    /\ opt' = [opt EXCEPT !.phase = IF New(opt.o).panic THEN "panicked"
                                    ELSE "built",
                          !.db = New(opt.o).db]
    /\ last' = [Idle EXCEPT !.op = "New"]
    /\ UNCHANGED <<cfg, wal, ctxToken, lastMasterLSN, lastWrite, txn, http,
                   reg, lb, rr, upd>>

\* the application calls New again
NewCall ==
    /\ last.op = ""
    /\ opt.phase # "applying"
    /\ opt' = NewOptions
    /\ last' = [Idle EXCEPT !.op = "defaultOption"]
    /\ UNCHANGED <<cfg, wal, ctxToken, lastMasterLSN, lastWrite, txn, http,
                   reg, lb, rr, upd>>

\* the facade New returned chooses the backend of a read, as QueryContext
\* and QueryRowContext do, under a context with or without a token
BuiltReadCall ==
    /\ last.op = ""
    /\ opt.phase = "built"
    /\ \E tok \in Tokens \cup {NoToken} :
         \E env \in Envs(FacadeOf(opt.db)), y \in Picks(FacadeOf(opt.db)) :
           LET r == curDB(FacadeOf(opt.db), tok, QueryTypeRead, env, y)
           IN  last' = [Idle EXCEPT !.op = "curDB", !.qt = QueryTypeRead,
                           !.db = r.db, !.routeErr = r.routeErr,
                           !.resolves = r.resolves, !.replayQ = r.replayQ,
                           !.tokBefore = tok]
    /\ UNCHANGED <<cfg, wal, ctxToken, lastMasterLSN, lastWrite, txn, http,
                   reg, lb, rr, opt, upd>>

NextOptions ==
    \/ NewCall
    \/ OptionCall
    \/ NewReturns
    \/ BuiltReadCall
    \/ Resume

\* the application has a facade of one primary and calls New for others
InitOptions ==
    /\ InitDefaults
    /\ cfg.nPrimaries = 1
    /\ ~cfg.Enabled

SpecOptions == InitOptions /\ [][NextOptions]_vars

NextOrder ==
    \/ CompareCall
    \/ SubtractCall
    \/ Resume

SpecOrder == InitDefaults /\ [][NextOrder]_vars

NextParse ==
    \/ ParseLSNCall
    \/ StringCall
    \/ Resume

SpecParse == InitDefaults /\ [][NextParse]_vars

Spec == Init /\ [][Next]_vars

\* statements through the facade on a context without token or with a token
\* that requires the first WAL position
\* --------------------------------------------- concurrent registry calls
\* goroutine p enters getOrCreateChecker(db, r.queryTimeout) from caller
\* (shouldUseReplica for a replica, UpdateLSNAfterWrite for a primary); a nil
\* db returns nil at once
GetOrCreateCheckerCall(p, db, caller) ==
    /\ reg.g[p].pc = "idle"
    /\ reg' = [reg EXCEPT !.g[p] =
                   [IdleProc EXCEPT !.pc = IF db = NilDB THEN "returned" ELSE "RLock",
                                    !.db = db, !.caller = caller]]
    /\ UNCHANGED <<opt, upd, cfg, wal, ctxToken, lastMasterLSN, lastWrite, txn, http, last, lb, rr>>

\* registry.mu.RLock()
RLock(p) ==
    /\ reg.g[p].pc = "RLock"
    /\ reg.mu.w = 0
    /\ reg' = [reg EXCEPT !.mu.r = @ \cup {p}, !.g[p].pc = "lookup"]
    /\ UNCHANGED <<opt, upd, cfg, wal, ctxToken, lastMasterLSN, lastWrite, txn, http, last, lb, rr>>

\* the lookup under the read lock and registry.mu.RUnlock()
Lookup(p) ==
    /\ reg.g[p].pc = "lookup"
    /\ LET checker == reg.checkers[reg.g[p].db]
       IN  reg' = [reg EXCEPT !.mu.r = @ \ {p},
                              !.g[p].pc = IF checker.present THEN "returned" ELSE "Lock",
                              !.g[p].checker = checker]
    /\ UNCHANGED <<opt, upd, cfg, wal, ctxToken, lastMasterLSN, lastWrite, txn, http, last, lb, rr>>

\* registry.mu.Lock()
Lock(p) ==
    /\ reg.g[p].pc = "Lock"
    /\ reg.mu.w = 0
    /\ reg.mu.r = {}
    /\ reg' = [reg EXCEPT !.mu.w = p, !.g[p].pc = "locked", !.g[p].slow = TRUE]
    /\ UNCHANGED <<opt, upd, cfg, wal, ctxToken, lastMasterLSN, lastWrite, txn, http, last, lb, rr>>

\* the second lookup and the creation under the write lock, and the
\* deferred registry.mu.Unlock()
Create(p) ==
    /\ reg.g[p].pc = "locked"
    /\ LET o == createIfAbsent(reg.checkers, reg.allocated, reg.g[p].db,
                               reg.router.queryTimeout)
       IN  reg' = [reg EXCEPT !.checkers = o.checkers, !.allocated = o.allocated,
                              !.mu.w = 0, !.g[p].pc = "returned",
                              !.g[p].checker = o.checker]
    /\ UNCHANGED <<opt, upd, cfg, wal, ctxToken, lastMasterLSN, lastWrite, txn, http, last, lb, rr>>

\* checker.GetLastReplayLSN(ctx) or checker.GetCurrentWALLSN(ctx) of the
\* caller: the query runs under context.WithTimeout(ctx, c.queryTimeout)
LSNQuery(p) ==
    /\ reg.g[p].pc = "returned"
    /\ reg.g[p].checker.present
    /\ reg' = [reg EXCEPT !.g[p].pc = "queried",
                          !.g[p].bound = reg.g[p].checker.queryTimeout]
    /\ UNCHANGED <<opt, upd, cfg, wal, ctxToken, lastMasterLSN, lastWrite, txn, http, last, lb, rr>>

\* the caller returns
CallerReturns(p) ==
    /\ reg.g[p].pc \in {"returned", "queried"}
    /\ reg' = [reg EXCEPT !.g[p] = IdleProc]
    /\ UNCHANGED <<opt, upd, cfg, wal, ctxToken, lastMasterLSN, lastWrite, txn, http, last, lb, rr>>

\* an enabled router over one primary and every replica, built from a
\* configuration with the given Timeout
InitRouter(timeout) ==
    /\ cfg \in Configs
    /\ cfg.Enabled /\ cfg.Level = ReadYourWrites /\ cfg.FallbackToMaster
    /\ cfg.nPrimaries = 1 /\ cfg.nReplicas = MaxReplicas
    /\ wal = [i \in 1..cfg.nPrimaries |-> MaxPos - 1]
    /\ ctxToken = NoToken
    /\ lastMasterLSN = ZeroLSN
    /\ lastWrite = NoWrite
    /\ txn = NoTx
    /\ http = NoRequest
    /\ last = Idle
    /\ reg = NewRegistry(cfg, timeout)
    /\ lb = 0
    /\ rr = NewRoundRobinRouter
    /\ opt = OptionsOf(cfg)
    /\ upd = NoCaptures

\* goroutine p calls getOrCreateChecker as the router's functions do
CallsOf(p) ==
    \/ \E i \in 1..cfg.nReplicas :
          GetOrCreateCheckerCall(p, Replica(i), "shouldUseReplica")
    \/ \E i \in 1..cfg.nPrimaries :
          GetOrCreateCheckerCall(p, Primary(i), "UpdateLSNAfterWrite")
    \/ GetOrCreateCheckerCall(p, NilDB, "")

\* concurrent calls of getOrCreateChecker
InitRegistry == InitRouter(DefaultTimeout)

NextRegistry ==
    \E p \in Procs :
        \/ CallsOf(p)
        \/ RLock(p)
        \/ Lookup(p)
        \/ Lock(p)
        \/ Create(p)
        \/ CallerReturns(p)

SpecRegistry == InitRegistry /\ [][NextRegistry]_vars

\* the LSN queries of one goroutine, for a router built with any Timeout
InitTimeout == \E timeout \in Timeouts : InitRouter(timeout)

NextTimeout ==
    \/ CallsOf(1)
    \/ RLock(1)
    \/ Lookup(1)
    \/ Lock(1)
    \/ Create(1)
    \/ LSNQuery(1)
    \/ CallerReturns(1)

SpecTimeout == InitTimeout /\ [][NextTimeout]_vars

\* ------------------------------------------- selections under RoundRobin
\* a common multiple of the lengths of the two backend lists
CounterSpan(c) == c.nPrimaries * (IF c.nReplicas = 0 THEN 1 ELSE c.nReplicas)

\* db.ReadWrite() with the RoundRobin balancer
RoundRobinReadWrite ==
    /\ last.op = ""
    /\ last' = [Idle EXCEPT !.op = "ReadWrite", !.qt = QueryTypeWrite,
                   !.db = ReadWrite(cfg, RoundRobinPick(lb)), !.resolves = 1,
                   !.tokBefore = ctxToken]
    /\ lb' = RoundRobinNext(lb, 1, CounterSpan(cfg))
    /\ UNCHANGED <<opt, upd, cfg, wal, ctxToken, lastMasterLSN, lastWrite, txn, http, reg, rr>>

\* db.ReadOnly() with the RoundRobin balancer
RoundRobinReadOnly ==
    /\ last.op = ""
    /\ last' = [Idle EXCEPT !.op = "ReadOnly", !.qt = QueryTypeRead,
                   !.db = ReadOnly(cfg, RoundRobinPick(lb), RoundRobinPick(lb)),
                   !.resolves = 1, !.tokBefore = ctxToken]
    /\ lb' = RoundRobinNext(lb, 1, CounterSpan(cfg))
    /\ UNCHANGED <<opt, upd, cfg, wal, ctxToken, lastMasterLSN, lastWrite, txn, http, reg, rr>>

\* router.RouteQuery(ctx, queryType) with the RoundRobin balancer: the
\* replica is chosen by the first Resolve of the call, the primary by its
\* last
RoundRobinRouteQuery(queryType) ==
    /\ last.op = ""
    /\ \E env \in Envs(cfg) :
          LET r == RouteQuery(cfg, ctxToken, queryType, env)
              calls == IF r.resolves = 0 THEN 1 ELSE r.resolves
          IN  /\ cfg.nReplicas > 0 =>
                     env.pickR = Resolve(cfg.nReplicas, RoundRobinPick(lb))
              /\ env.pickP = Resolve(cfg.nPrimaries, RoundRobinPick(lb) + calls - 1)
              /\ last' = [Idle EXCEPT !.op = "RouteQuery", !.qt = queryType,
                             !.db = r.db, !.err = r.err, !.resolves = r.resolves,
                             !.replayQ = r.replayQ, !.tokBefore = ctxToken]
              /\ lb' = RoundRobinNext(lb, r.resolves, CounterSpan(cfg))
    /\ UNCHANGED <<opt, upd, cfg, wal, ctxToken, lastMasterLSN, lastWrite, txn, http, reg, rr>>

\* a facade with several primaries and several replicas
InitRoundRobin ==
    /\ Init
    /\ cfg.nPrimaries = MaxPrimaries
    /\ cfg.nReplicas = MaxReplicas

NextRoundRobin ==
    \/ \E tok \in Tokens : WithLSNContext(tok)
    \/ RoundRobinReadWrite
    \/ RoundRobinReadOnly
    \/ \E qt \in QueryTypes : RoundRobinRouteQuery(qt)
    \/ Resume

\* callers keep reading and writing: every kind of call that can be made
\* again and again is made again and again
SpecRoundRobin ==
    /\ InitRoundRobin
    /\ [][NextRoundRobin]_vars
    /\ WF_vars(Resume)
    /\ SF_vars(RoundRobinReadWrite)
    /\ SF_vars(RoundRobinReadOnly)
    /\ SF_vars(\E qt \in QueryTypes : RoundRobinRouteQuery(qt))

\* statements prepared through the facade
NextPrepare ==
    \/ \E qt \in QueryTypes : PrepareContextCall(qt)
    \/ Resume

SpecPrepare == Init /\ [][NextPrepare]_vars

\* ------------------------------------------------- classifying statements
\* the texts of at most MaxText pieces
Texts == UNION {[1..n -> Pieces] : n \in 0..MaxText}

\* a caller holds a statement's text
InitCheck ==
    /\ InitDefaults
    /\ cfg.nPrimaries = 1
    /\ ~cfg.Enabled

\* the caller takes up a text
TakeQuery ==
    /\ last.op = ""
    /\ last.query = <<>>
    /\ \E query \in Texts \ {<<>>} : last' = [Idle EXCEPT !.query = query]
    /\ UNCHANGED <<opt, upd, cfg, wal, ctxToken, lastMasterLSN, lastWrite, txn, http, reg, lb, rr>>

\* checker.Check(query)
CheckCall ==
    /\ last.op = ""
    /\ last' = [Idle EXCEPT !.op = "Check", !.query = last.query,
                   !.qt = Check(last.query)]
    /\ UNCHANGED <<opt, upd, cfg, wal, ctxToken, lastMasterLSN, lastWrite, txn, http, reg, lb, rr>>

NextCheck ==
    \/ TakeQuery
    \/ CheckCall
    \/ Resume

SpecCheck == InitCheck /\ [][NextCheck]_vars

\* ------------------------------------------------ calls of every router
\* SimpleRouter.RouteQuery(ctx, queryType)
SimpleRouterRouteQueryCall(queryType) ==
    /\ last.op = ""
    /\ \E e \in Envs(cfg) :
          LET o == SimpleRouterRouteQuery(cfg, queryType, e.pickP, e.pickR)
          IN  last' = [Idle EXCEPT !.op = "SimpleRouter.RouteQuery", !.qt = queryType,
                          !.db = o.db, !.err = o.err, !.resolves = 1,
                          !.tokBefore = ctxToken]
    /\ UNCHANGED <<opt, upd, cfg, wal, ctxToken, lastMasterLSN, lastWrite, txn, http, reg, lb, rr>>

\* RandomRouter.RouteQuery(ctx, queryType)
RandomRouterRouteQueryCall(queryType) ==
    /\ last.op = ""
    /\ \E draw \in RandomDraws(cfg, queryType) :
          LET o == RandomRouterRouteQuery(cfg, queryType, draw)
          IN  last' = [Idle EXCEPT !.op = "RandomRouter.RouteQuery", !.qt = queryType,
                          !.db = o.db, !.err = o.err, !.tokBefore = ctxToken]
    /\ UNCHANGED <<opt, upd, cfg, wal, ctxToken, lastMasterLSN, lastWrite, txn, http, reg, lb, rr>>

\* RoundRobinRouter.RouteQuery(ctx, queryType)
RoundRobinRouterRouteQueryCall(queryType) ==
    /\ last.op = ""
    /\ LET o == RoundRobinRouterRouteQuery(cfg, rr, queryType)
       IN  /\ last' = [Idle EXCEPT !.op = "RoundRobinRouter.RouteQuery",
                           !.qt = queryType, !.db = o.db, !.err = o.err,
                           !.tokBefore = ctxToken]
           /\ rr' = o.router
    /\ UNCHANGED <<opt, upd, cfg, wal, ctxToken, lastMasterLSN, lastWrite, txn, http, reg, lb>>

NextRouters ==
    \/ \E tok \in Tokens : WithLSNContext(tok)
    \/ \E qt \in QueryTypes : RouteQueryCall(qt)
    \/ \E qt \in QueryTypes : SimpleRouterRouteQueryCall(qt)
    \/ \E qt \in QueryTypes : RandomRouterRouteQueryCall(qt)
    \/ \E qt \in QueryTypes : RoundRobinRouterRouteQueryCall(qt)
    \/ Resume

SpecRouters == Init /\ [][NextRouters]_vars

NextStatements ==
    \/ WithLSNContext(LSNContext(LSNOf(1), ReadYourWrites, FALSE, FALSE))
    \/ \E qt \in QueryTypes : QueryContextCall(qt)
    \/ \E qt \in QueryTypes : QueryRowContextCall(qt)
    \/ ExecContextCall
    \/ Resume

SpecStatements == Init /\ [][NextStatements]_vars

\* ------------------------------------------------------ routing properties
\* the WAL position an LSN stands for
PosOf(lsn) == CHOOSE k \in 0..MaxPos : LSNOf(k) = lsn

\* the last call was RouteQuery on an enabled router for a statement that
\* is not a write
RoutedRead ==
    /\ last.op = "RouteQuery"
    /\ cfg.Enabled
    /\ last.qt # QueryTypeWrite

\* the RouteQuery call was decided against a non-zero required LSN under
\* ReadYourWrites, with a replica configured and the primary not forced
DecidedAgainstLSN ==
    /\ RoutedRead
    /\ cfg.Level = ReadYourWrites
    /\ cfg.nReplicas >= 1
    /\ last.tokBefore.present
    /\ ~last.tokBefore.ForceMaster
    /\ ~IsZero(last.tokBefore.RequiredLSN)

\* C4: a read routed under ReadYourWrites with a non-zero required LSN L
\* (a replica configured, primary not forced) asks the replica the selector
\* chose for its replay LSN once; the router returns that replica if and
\* only if the query succeeded and the replay position is >= L (equality
\* included), otherwise a primary when FallbackToMaster is set and the error
\* "no replica has caught up" when it is not.
C4_ReplicaIffCaughtUp ==
    DecidedAgainstLSN =>
        /\ Len(last.replayQ) = 1
        /\ last.replayQ[1].db \in {Replica(i) : i \in 1..cfg.nReplicas}
        /\ LET q == last.replayQ[1]
               caughtUp == q.ok /\ q.pos >= PosOf(last.tokBefore.RequiredLSN)
           IN  /\ (last.err = ErrNone /\ last.db.kind = "replica") <=> caughtUp
               /\ caughtUp => last.db = q.db
               /\ (~caughtUp /\ cfg.FallbackToMaster) =>
                      /\ last.err = ErrNone
                      /\ last.db \in {Primary(i) : i \in 1..cfg.nPrimaries}
               /\ (~caughtUp /\ ~cfg.FallbackToMaster) =>
                      /\ last.err = ErrNoReplicaCaughtUp
                      /\ last.db = NilDB

\* a read decided against L returned the replica whose replay position is
\* exactly L, with a second replica configured
C4_Witness ==
    /\ DecidedAgainstLSN
    /\ cfg.nReplicas = MaxReplicas
    /\ last.replayQ[1].ok
    /\ last.replayQ[1].pos = PosOf(last.tokBefore.RequiredLSN)
    /\ last.db = last.replayQ[1].db
    /\ last.err = ErrNone

\* the last call was an UpdateLSNAfterWrite against a primary that returned
\* the primary's WAL LSN without error
Captured ==
    /\ last.op = "UpdateLSNAfterWrite"
    /\ cfg.Enabled
    /\ last.db.kind = "primary"
    /\ last.err = ErrNone
    /\ last.walQ = <<last.db>>

\* C8: after UpdateLSNAfterWrite(ctx, primary) returned L without error, the
\* token of the caller's ctx has RequiredLSN = L, whether or not the ctx
\* carried a token before the call.
C8_TokenCarriesCapturedLSN ==
    Captured => (ctxToken.present /\ ctxToken.RequiredLSN = last.lsn)

\* the read is routed with no token, or with a token whose required LSN is
\* zero, at a level other than StrongConsistency with a replica configured
NoRequirement ==
    /\ RoutedRead
    /\ cfg.Level # StrongConsistency
    /\ cfg.nReplicas >= 1
    /\ (~last.tokBefore.present \/ IsZero(last.tokBefore.RequiredLSN))

\* the router returned a replica from one selector call without any LSN query
ReplicaUnasked ==
    /\ last.err = ErrNone
    /\ last.db \in {Replica(i) : i \in 1..cfg.nReplicas}
    /\ last.resolves = 1
    /\ last.replayQ = <<>>
    /\ last.walQ = <<>>

\* C9 as stated: every read routed with no token or a zero required LSN, at
\* a level other than StrongConsistency and with a replica configured,
\* returns a selector-chosen replica without any LSN query.
C9_Original == NoRequirement => ReplicaUnasked

\* C9: every read routed with no token, or with a token whose required LSN
\* is zero and whose ForceMaster is false, at a level other than
\* StrongConsistency and with a replica configured, returns a replica from
\* one selector call and queries no backend for an LSN.
C9_ReplicaWithoutLSNQuery ==
    (NoRequirement /\ ~(last.tokBefore.present /\ last.tokBefore.ForceMaster))
        => ReplicaUnasked

\* a zero-LSN token without ForceMaster under ReadYourWrites was routed to
\* the second replica
C9_Witness ==
    /\ NoRequirement
    /\ cfg.Level = ReadYourWrites
    /\ last.tokBefore.present
    /\ ~last.tokBefore.ForceMaster
    /\ last.db = Replica(MaxReplicas)

\* C10: on an enabled router, a RouteQuery whose ctx token has ForceMaster
\* set returns a primary without error for every query type, level, required
\* LSN and replica count, and makes no replay-LSN query.
C10_ForcedPrimary ==
    (last.op = "RouteQuery" /\ cfg.Enabled /\ last.tokBefore.present
        /\ last.tokBefore.ForceMaster)
        => /\ last.err = ErrNone
           /\ last.db \in {Primary(i) : i \in 1..cfg.nPrimaries}
           /\ last.replayQ = <<>>

\* a read under ReadYourWrites with ForceMaster and a non-zero required LSN,
\* replicas configured, was routed to a primary
C10_Witness ==
    /\ last.op = "RouteQuery"
    /\ cfg.Enabled
    /\ cfg.Level = ReadYourWrites
    /\ cfg.nReplicas >= 1
    /\ last.qt = QueryTypeRead
    /\ last.tokBefore.present
    /\ last.tokBefore.ForceMaster
    /\ ~IsZero(last.tokBefore.RequiredLSN)
    /\ last.db.kind = "primary"

\* C11: on an enabled router whose level is StrongConsistency, a RouteQuery
\* of a statement that is not a write returns one of the primaries without
\* error and asks no replica for its replay LSN, whether the context has no
\* token, a token with a zero or one with a non-zero required LSN, and
\* whatever the number of replicas.
C11_StrongReadsOnPrimary ==
    (RoutedRead /\ cfg.Level = StrongConsistency)
        => /\ last.err = ErrNone
           /\ last.db \in {Primary(i) : i \in 1..cfg.nPrimaries}
           /\ last.replayQ = <<>>

\* under StrongConsistency with every replica configured, a read whose token
\* has a non-zero required LSN and no ForceMaster was routed to a primary
C11_Witness ==
    /\ RoutedRead
    /\ cfg.Level = StrongConsistency
    /\ cfg.nReplicas = MaxReplicas
    /\ last.tokBefore.present
    /\ ~last.tokBefore.ForceMaster
    /\ ~IsZero(last.tokBefore.RequiredLSN)
    /\ last.db.kind = "primary"

\* C12: with no replica configured, on an enabled router every RouteQuery of
\* a statement that is not a write returns one of the primaries without error
\* and makes no replay-LSN query, for every level, every token and both
\* values of FallbackToMaster.
C12_ZeroReplicasPrimary ==
    (RoutedRead /\ cfg.nReplicas = 0)
        => /\ last.err = ErrNone
           /\ last.db \in {Primary(i) : i \in 1..cfg.nPrimaries}
           /\ last.replayQ = <<>>

\* C13: when the replay-LSN query of a read decided against a required LSN
\* fails, the router returns no replica: a primary without error when
\* FallbackToMaster is set, the error "no replica has caught up" and no
\* handle when it is not; no other error comes out of the decision.
C13_ReplayErrorIsNotCaughtUp ==
    (DecidedAgainstLSN /\ last.replayQ # <<>> /\ ~last.replayQ[1].ok)
        => /\ last.db.kind # "replica"
           /\ cfg.FallbackToMaster =>
                  /\ last.err = ErrNone
                  /\ last.db \in {Primary(i) : i \in 1..cfg.nPrimaries}
           /\ ~cfg.FallbackToMaster =>
                  /\ last.err = ErrNoReplicaCaughtUp
                  /\ last.db = NilDB

\* the replay-LSN query of the second replica failed and the read was routed
\* to the second primary
C13_Witness ==
    /\ DecidedAgainstLSN
    /\ last.replayQ # <<>>
    /\ ~last.replayQ[1].ok
    /\ last.replayQ[1].db = Replica(MaxReplicas)
    /\ cfg.FallbackToMaster
    /\ last.db = Primary(MaxPrimaries)

\* ------------------------------------------------------- facade properties
\* the last call was a QueryContext or QueryRowContext of a statement that
\* is not classified Write
FacadeRead ==
    /\ last.op \in {"QueryContext", "QueryRowContext"}
    /\ last.qt # QueryTypeWrite

\* the last call handed a statement classified Write to the facade
FacadeWrite ==
    \/ last.op = "ExecContext"
    \/ last.op \in {"QueryContext", "QueryRowContext"} /\ last.qt = QueryTypeWrite

\* C1: under ReadYourWrites, after an ExecContext on this context committed
\* W on a primary, a read through QueryContext or QueryRowContext on the same
\* context that returns without error ran on a primary or on a replica whose
\* replay position is at least W's commit position.
C1_ReadSeesOwnWrite ==
    (/\ FacadeRead
     /\ cfg.Enabled
     /\ cfg.Level = ReadYourWrites
     /\ lastWrite.present
     /\ lastWrite.via = "ExecContext"
     /\ last.err = ErrNone)
        => \/ last.db.kind = "primary"
           \/ last.db.kind = "replica" /\ last.execReplay >= lastWrite.pos

\* C2: an ExecContext runs its statement on one primary; with a router
\* configured, a successful call has passed that primary to
\* UpdateLSNAfterWrite before it returns, a failed call has passed none.
C2_ExecCapturesOnSuccess ==
    (last.op = "ExecContext" /\ HasRouter(cfg))
        => /\ Len(last.execOn) = 1
           /\ last.execOn[1] \in {Primary(i) : i \in 1..cfg.nPrimaries}
           /\ last.err = ErrNone => last.captures = <<last.execOn[1]>>
           /\ last.err # ErrNone => last.captures = <<>>

\* C3: a read through QueryContext or QueryRowContext whose routing decision
\* failed with "no replica has caught up" (ReadYourWrites, FallbackToMaster
\* false, the replica asked behind the required LSN or its query failing)
\* returns that error and has run on no replica.
C3_RoutingFailureSurfaced ==
    (FacadeRead /\ last.routeErr = ErrNoReplicaCaughtUp)
        => /\ last.err = ErrNoReplicaCaughtUp
           /\ \A i \in 1..Len(last.execOn) : last.execOn[i].kind # "replica"

\* C5: a write never goes to a replica: on an enabled router RouteQuery of
\* QueryTypeWrite returns one of the primaries without error whatever the
\* token, the level and FallbackToMaster; QueryContext and QueryRowContext of
\* a statement classified Write, and ExecContext, run the statement on
\* primaries only, and on one at least.
C5_WritesOnPrimary ==
    /\ (last.op = "RouteQuery" /\ last.qt = QueryTypeWrite /\ cfg.Enabled)
           => /\ last.err = ErrNone
              /\ last.db \in {Primary(i) : i \in 1..cfg.nPrimaries}
    /\ FacadeWrite
           => /\ last.execOn # <<>>
              /\ \A i \in 1..Len(last.execOn) :
                     last.execOn[i] \in {Primary(i2) : i2 \in 1..cfg.nPrimaries}

\* a statement classified Write went through QueryContext on a context
\* whose token has a non-zero required LSN and no ForceMaster, with
\* replicas configured, and committed on the second primary
C5_Witness ==
    /\ last.op = "QueryContext"
    /\ last.qt = QueryTypeWrite
    /\ cfg.Enabled
    /\ cfg.nReplicas >= 1
    /\ last.tokBefore.present
    /\ ~last.tokBefore.ForceMaster
    /\ ~IsZero(last.tokBefore.RequiredLSN)
    /\ last.err = ErrNone
    /\ last.execOn = <<Primary(MaxPrimaries)>>

\* C20: QueryContext and QueryRowContext run a statement on one backend,
\* and on a second one only when the statement is not classified Write and
\* its first run failed with a connection error: the second run is on a
\* primary, there is no third, and the call returns the outcome of the
\* second run.  A statement classified Write and an ExecContext run once and
\* return their outcome, a connection error included; an error that is not a
\* connection error is returned as it is after one run.
C20_OneRetryOfReadsOnly ==
    (last.op \in {"QueryContext", "QueryRowContext", "ExecContext"})
        => LET n == Len(last.execOn)
           IN  /\ n \in {1, 2}
               /\ Len(last.outcomes) = n
               /\ n = 2 <=> (/\ last.op # "ExecContext"
                             /\ last.qt # QueryTypeWrite
                             /\ last.outcomes[1] = ResConn)
               /\ n = 2 => last.execOn[2] \in {Primary(i) : i \in 1..cfg.nPrimaries}
               /\ last.err = ErrOf(last.outcomes[n])
               /\ last.db = last.execOn[n]

\* a read ran on a replica, failed there with a connection error, ran again
\* on the second primary and failed there with a connection error, which the
\* call returned
C20_Witness ==
    /\ last.op = "QueryContext"
    /\ last.qt = QueryTypeRead
    /\ Len(last.execOn) = 2
    /\ last.execOn[1].kind = "replica"
    /\ last.execOn[2] = Primary(MaxPrimaries)
    /\ last.outcomes = <<ResConn, ResConn>>
    /\ last.err = ResConn

\* -------------------------------------------------- transaction properties
\* C6: with a router configured, a Commit that succeeds after a write
\* succeeded in the transaction passes the transaction's primary to
\* UpdateLSNAfterWrite exactly once; a failed Commit, a Commit of a
\* transaction without writes, a Rollback and every statement of the
\* transaction pass nothing to it.
C6_CaptureAtCommitOnly ==
    /\ (last.op = "Commit" /\ HasRouter(cfg) /\ last.err = ErrNone /\ txn.wrote)
           => last.captures = <<txn.sourceDB>>
    /\ (last.op = "Commit" /\ (last.err # ErrNone \/ ~txn.wrote))
           => last.captures = <<>>
    /\ last.op \in {"tx.ExecContext", "tx.QueryContext", "tx.QueryRowContext",
                    "Rollback"}
           => last.captures = <<>>

\* ----------------------------------------------------- transport properties
\* C7: with an enabled router, when the handler of a request wrote through
\* the facade with success and answers with a 2xx status, the response
\* carries a cookie of the middleware's name whose value is the text of the
\* WAL LSN of the primary that ran the write, with Max-Age the middleware's
\* maximal age in seconds, HttpOnly, SameSite=Lax and Path=/.
C7_CookieAfterWrite ==
    (/\ last.op = "WriteHeader"
     /\ cfg.Enabled
     /\ lastWrite.present
     /\ http.sent >= 200
     /\ http.sent < 300)
        => /\ http.cookie.present
           /\ http.cookie.Name = http.mw.cookieName
           /\ http.cookie.Value = String(LSNOf(wal[lastWrite.db.idx]))
           /\ http.cookie.MaxAge = http.mw.cookieMaxAge \div MsPerSecond
           /\ http.cookie.HttpOnly
           /\ http.cookie.SameSite = "Lax"
           /\ http.cookie.Path = "/"

\* the request entered the middleware without a usable LSN cookie: none of
\* the middleware's name, one with an empty value, or one whose value is not
\* the text of an LSN
NoUsableCookie ==
    /\ last.op = "Middleware"
    /\ \/ ~last.req.present
       \/ last.req.Name # http.mw.cookieName
       \/ last.req.Value = <<>>
       \/ ~ParseLSN(last.req.Value).ok

\* the request entered the middleware with a cookie of the middleware's name
\* whose value is the text of an LSN
UsableCookie ==
    /\ last.op = "Middleware"
    /\ last.req.present
    /\ last.req.Name = http.mw.cookieName
    /\ last.req.Value # <<>>
    /\ ParseLSN(last.req.Value).ok

\* C16: for a request without a usable LSN cookie the context handed to the
\* handler carries no token (GetLSNContext returns nil), and a read on it is
\* routed as a read without token is.
C16_NoTokenWithoutCookie ==
    NoUsableCookie
        => /\ ~ctxToken.present
           /\ \A qt \in QueryTypes \ {QueryTypeWrite} :
                  RouteOutcomes(cfg, ctxToken, qt) = RouteOutcomes(cfg, NoToken, qt)

\* C17: for a request with a cookie of the middleware's name whose value is
\* the text of the LSN L, the context handed to the handler carries a token
\* with RequiredLSN = L and Level = ReadYourWrites.
C17_TokenFromCookie ==
    UsableCookie
        => /\ ctxToken.present
           /\ ctxToken.RequiredLSN = ParseLSN(last.req.Value).lsn
           /\ ctxToken.Level = ReadYourWrites

\* C14: with more than one primary, the WAL-LSN query the response wrapper
\* makes after a write of the handler goes to the primary that ran the write
\* and to no other backend, and the LSN it puts in the cookie is at or above
\* the commit position of that write.
C14_CaptureFromWritingPrimary ==
    (/\ last.op = "WriteHeader"
     /\ cfg.Enabled
     /\ cfg.nPrimaries > 1
     /\ lastWrite.present
     /\ last.walQ # <<>>)
        => /\ last.walQ = <<lastWrite.db>>
           /\ http.cookie.present =>
                  PosOf(ParseLSN(http.cookie.Value).lsn) >= lastWrite.pos

\* C18: no response carries an LSN cookie whose value is the text of the
\* zero LSN, whether the handler called SetLSNCookie or the response wrapper
\* set the cookie in WriteHeader.
C18_NoZeroLSNCookie ==
    http.cookie.present
        => /\ http.cookie.Value # String(ZeroLSN)
           /\ ~(ParseLSN(http.cookie.Value).ok
                    /\ IsZero(ParseLSN(http.cookie.Value).lsn))

\* the handler called SetLSNCookie with the zero LSN and the response has
\* no cookie
C18_Witness ==
    /\ last.op = "SetLSNCookie"
    /\ IsZero(last.lsn)
    /\ ~http.cookie.present

\* the request a client sends after a response with cookie c
RequestWith(c) == [present |-> TRUE, Name |-> c.Name, Value |-> c.Value]

\* C19: the cookie SetLSNCookie emitted for a non-zero LSN L, presented on
\* the next request to a middleware of the same cookie name, yields L from
\* GetLSNFromCookie and a token whose RequiredLSN is L from the middleware:
\* ParseLSN(L.String()) = L.
C19_CookieRoundTrip ==
    (last.op = "SetLSNCookie" /\ ~IsZero(last.lsn))
        => /\ http.cookie.present
           /\ http.cookie.Name = http.mw.cookieName
           /\ ParseLSN(String(last.lsn)) = [ok |-> TRUE, lsn |-> last.lsn]
           /\ GetLSNFromCookie(RequestWith(http.cookie), http.mw.cookieName)
                  = [lsn |-> last.lsn, ok |-> TRUE]
           /\ Middleware(http.mw, RequestWith(http.cookie)).present
           /\ Middleware(http.mw, RequestWith(http.cookie)).RequiredLSN = last.lsn

\* the cookie was emitted for an LSN whose halves take several hex digits
\* and a letter digit
C19_Witness ==
    /\ last.op = "SetLSNCookie"
    /\ last.lsn = LSN(2147483647, 10)
    /\ http.cookie.present
    /\ http.cookie.Value = <<"7", "F", "F", "F", "F", "F", "F", "F", "/", "A">>

\* ------------------------------------------------------ capture properties
\* the last call was an UpdateLSNAfterWrite whose WAL-LSN query failed
FailedCapture ==
    /\ last.op = "UpdateLSNAfterWrite"
    /\ cfg.Enabled
    /\ last.walQ # <<>>
    /\ last.err = ErrMasterLSN

\* C15: an UpdateLSNAfterWrite whose WAL-LSN query fails leaves the token of
\* the context, the router's lastMasterLSN and what was committed as they
\* were; an ExecContext or a Commit that committed returns without error
\* whatever the outcome of the LSN query after it.
C15_CaptureBestEffort ==
    [][/\ FailedCapture' =>
              /\ ctxToken' = ctxToken
              /\ lastMasterLSN' = lastMasterLSN
              /\ wal' = wal
              /\ lastWrite' = lastWrite
       /\ (last'.op \in {"ExecContext", "Commit"} /\ wal' # wal) =>
              /\ last'.err = ErrNone
              /\ last'.walQ # <<>> => ctxToken' = ctxToken]_vars

\* after a transaction that wrote was committed, the WAL-LSN query against
\* its primary failed, on a context whose token holds a non-zero LSN and a
\* router that had cached one
C15_Witness ==
    /\ FailedCapture
    /\ lastWrite.present
    /\ lastWrite.via = "Commit"
    /\ last.db = lastWrite.db
    /\ ctxToken.present
    /\ ~IsZero(ctxToken.RequiredLSN)
    /\ ~IsZero(lastMasterLSN)

\* ------------------------------------------- transaction pinning properties
TxStatementOps == {"tx.ExecContext", "tx.QueryContext", "tx.QueryRowContext"}
TxPrepareOps == {"tx.PrepareContext", "tx.StmtContext"}
PrimariesOf(c) == {Primary(i) : i \in 1..c.nPrimaries}

C22_WritesOccurredByWrites ==
    [][/\ (last'.op = "BeginTx" /\ txn'.open) => ~txn'.writesOccurred
       /\ (txn.open /\ txn'.open) =>
              (txn'.writesOccurred <=>
                   \/ txn.writesOccurred
                   \/ /\ last'.op \in TxStatementOps
                      /\ last'.qt = QueryTypeWrite
                      /\ last'.err = ErrNone)]_vars

\* ---------------------------------------------- cost of a routing decision
\* C23: every RouteQuery that returns a backend has called the selector's
\* Resolve exactly once, also when the selected replica lags behind the
\* required LSN and the router falls back to a primary.
C23_OneResolvePerDecision ==
    (last.op = "RouteQuery" /\ last.err = ErrNone) => last.resolves = 1

\* C24: a RouteQuery of a read has asked at most one replica for its replay
\* LSN, the replica the selector chose among the configured ones, and has
\* asked no backend for its WAL LSN; a RouteQuery of a write has asked no
\* backend for any LSN.
C24_OneReplayQueryPerRead ==
    last.op = "RouteQuery" =>
        /\ last.walQ = <<>>
        /\ Len(last.replayQ) <= 1
        /\ \A k \in 1..Len(last.replayQ) :
               /\ last.replayQ[k].db.kind = "replica"
               /\ last.replayQ[k].db.idx \in 1..cfg.nReplicas
        /\ last.qt = QueryTypeWrite => last.replayQ = <<>>

\* a read was routed to a primary after the one replica asked, the last of
\* several, was found behind the required LSN
C24_Witness ==
    /\ last.op = "RouteQuery"
    /\ last.qt = QueryTypeRead
    /\ last.err = ErrNone
    /\ cfg.nReplicas = MaxReplicas
    /\ Len(last.replayQ) = 1
    /\ last.replayQ[1].db = Replica(MaxReplicas)
    /\ last.replayQ[1].ok
    /\ last.db.kind = "primary"

\* -------------------------------------------------- registry properties
\* the calls of getOrCreateChecker that returned and whose caller still
\* holds the result
Returned(p) == reg.g[p].pc \in {"returned", "queried"} /\ reg.g[p].db # NilDB

\* C25: under every interleaving of getOrCreateChecker calls, a call that
\* returned for a handle holds the checker the registry holds for that
\* handle, so calls for one handle hold the same checker and calls for
\* different handles hold different ones; the registry's checkers for
\* different handles are different allocations, and an entry, once created,
\* is never replaced or removed.
C25_OneCheckerPerHandle ==
    /\ [](/\ \A p \in Procs : Returned(p) =>
                 /\ reg.g[p].checker.present
                 /\ reg.g[p].checker = reg.checkers[reg.g[p].db]
                 /\ reg.g[p].checker.db = reg.g[p].db
          /\ \A p, q \in Procs : (Returned(p) /\ Returned(q)) =>
                 (reg.g[p].db = reg.g[q].db <=> reg.g[p].checker = reg.g[q].checker)
          /\ \A d, e \in DOMAIN reg.checkers :
                 (d # e /\ reg.checkers[d].present /\ reg.checkers[e].present) =>
                     reg.checkers[d].id # reg.checkers[e].id)
    /\ [][\A d \in DOMAIN reg.checkers :
              reg.checkers[d].present => reg.checkers'[d] = reg.checkers[d]]_vars

\* every goroutine found no checker for the same handle under the read
\* lock, went on to the write lock and returned, and a checker for another
\* handle exists
C25_Witness ==
    /\ \A p \in Procs : Returned(p) /\ reg.g[p].db = Replica(1) /\ reg.g[p].slow
    /\ reg.allocated >= 2

\* C26: every replay-LSN query and WAL-LSN query a router's call makes runs
\* under the Timeout of the configuration the router was built from.
C26_QueryBoundedByConfiguredTimeout ==
    \A p \in Procs :
        reg.g[p].pc = "queried" => reg.g[p].bound = reg.router.config.Timeout

\* --------------------------------------------------- selector properties
\* C27: under the RoundRobin policy, however reads and writes alternate,
\* every replica is selected again and again.
C27_NoReplicaStarved ==
    \A i \in 1..MaxReplicas :
        []<>(last.op \in {"ReadOnly", "RouteQuery"} /\ last.db = Replica(i))

\* ------------------------------------------- prepared-statement properties
\* the outcome of the prepare on primary i and on replica i in the last
\* PrepareContext
PrimaryOutcome(i) == last.outcomes[i]
ReplicaOutcome(i) == last.outcomes[cfg.nPrimaries + i]

\* C28: a PrepareContext whose prepares succeed on every primary returns a
\* statement without error, whatever the replicas answer; its primary slots
\* hold the primaries' statements, the slot of a replica that prepared holds
\* that replica's statement and the slot of a replica that failed holds a
\* primary's statement, in the replica list and in the per-backend map
\* alike; a PrepareContext one of whose primaries fails returns an error.
C28_PrepareEverywhere ==
    last.op = "PrepareContext" =>
        IF \A i \in 1..cfg.nPrimaries : PrimaryOutcome(i) = ResOK
        THEN /\ last.err = ErrNone
             /\ last.stmt.present
             /\ \A i \in 1..cfg.nPrimaries :
                    /\ last.stmt.primaryStmts[i] = SQLStmt(Primary(i))
                    /\ StmtOf(cfg, last.stmt, Primary(i)) = SQLStmt(Primary(i))
             /\ \A i \in 1..cfg.nReplicas :
                    IF ReplicaOutcome(i) = ResOK
                    THEN /\ last.stmt.replicaStmts[i] = SQLStmt(Replica(i))
                         /\ StmtOf(cfg, last.stmt, Replica(i)) = SQLStmt(Replica(i))
                    ELSE /\ last.stmt.replicaStmts[i].on.kind = "primary"
                         /\ StmtOf(cfg, last.stmt, Replica(i)).on.kind = "primary"
        ELSE last.err # ErrNone /\ ~last.stmt.present

\* -------------------------------------------------- classifier properties
\* the characters of the text from piece k on, up to the next character
\* that is not a word character, folded to upper case
RECURSIVE WordFrom(_, _)
WordFrom(query, k) ==
    IF IsWordAt(query, k) THEN ToUpper(query[k]) \o WordFrom(query, k + 1) ELSE ""

\* the first token of the text that is not whitespace: the word the text
\* begins with after its whitespace ("" when it begins with none)
FirstToken(query) == WordFrom(query, LeadingSpace(query, 0) + 1)

\* the words of the text: its maximal runs of word characters
WordsOf(query) ==
    {WordFrom(query, k) : k \in {j \in 1..Len(query) :
                                    IsWordAt(query, j) /\ ~IsWordAt(query, j - 1)}}

\* C29: Check returns Write exactly when the first token of the text after
\* its leading whitespace is, in any case, one of the six verbs, or one of
\* the words of the text is, in any case, RETURNING; it returns Unknown for
\* every other text and never Read.
C29_WriteIffVerbOrReturning ==
    last.op = "Check" =>
        /\ last.qt = QueryTypeWrite <=>
               \/ FirstToken(last.query) \in WriteVerbs
               \/ "RETURNING" \in WordsOf(last.query)
        /\ last.qt \in {QueryTypeWrite, QueryTypeUnknown}

\* a text was classified Unknown whose only verb comes after its first word
C29_Witness ==
    /\ last.op = "Check"
    /\ last.query = <<"SELECT", " ", "DELETE">>
    /\ last.qt = QueryTypeUnknown

\* ------------------------------------------------ properties of every router
\* the backends a router can return, for the present token, configuration
\* and indexes, for a statement of the given kind
CausalRouterBackends(queryType) ==
    {<<o.db, o.err>> : o \in RouteOutcomes(cfg, ctxToken, queryType)}
SimpleRouterBackends(queryType) ==
    {SimpleRouterRouteQuery(cfg, queryType, e.pickP, e.pickR).db : e \in Envs(cfg)}
RandomRouterBackends(queryType) ==
    {RandomRouterRouteQuery(cfg, queryType, draw).db :
        draw \in RandomDraws(cfg, queryType)}
RoundRobinRouterBackends(queryType) ==
    {RoundRobinRouterRouteQuery(cfg, rr, queryType).db}

\* C30: for one token, configuration and state, each router returns for a
\* statement of kind Unknown what it returns for a statement of kind Read.
C30_UnknownRoutedAsRead ==
    /\ CausalRouterBackends(QueryTypeUnknown) = CausalRouterBackends(QueryTypeRead)
    /\ SimpleRouterBackends(QueryTypeUnknown) = SimpleRouterBackends(QueryTypeRead)
    /\ RandomRouterBackends(QueryTypeUnknown) = RandomRouterBackends(QueryTypeRead)
    /\ RoundRobinRouterBackends(QueryTypeUnknown)
           = RoundRobinRouterBackends(QueryTypeRead)

\* the upper-case form of one character of an LSN text
UpperChar(ch) ==
    CASE ch = "a" -> "A" [] ch = "b" -> "B" [] ch = "c" -> "C"
      [] ch = "d" -> "D" [] ch = "e" -> "E" [] ch = "f" -> "F"
      [] OTHER -> ch

\* the text s with every letter in upper case
UpperText(s) == [i \in 1..Len(s) |-> UpperChar(s[i])]

\* the part of s before its "/" and the part after it
UpperPart(s) == SubSeq(s, 1, (CHOOSE i \in SlashAt(s) : TRUE) - 1)

LowerPart(s) == SubSeq(s, (CHOOSE i \in SlashAt(s) : TRUE) + 1, Len(s))

\* a run of digits with no zero in front of another digit
NoLeadingZero(part) == Len(part) > 1 => part[1] # "0"

\* C31 as stated: for every text s that ParseLSN accepts, the String of the
\* parsed LSN is s in upper case, texts whose halves carry leading zeros
\* included.
C31_ParseStringRoundTripAll ==
    last.op = "String" => last.text = UpperText(last.query)

\* C31: for every text s that ParseLSN accepts and whose halves carry no
\* leading zeros, the String of the parsed LSN is s in upper case; a text
\* with a leading zero in a half is accepted too and comes back without it.
C31_ParseStringRoundTrip ==
    last.op = "String"
        => /\ ParseLSN(last.query).ok
           /\ last.lsn = ParseLSN(last.query).lsn
           /\ (NoLeadingZero(UpperPart(last.query))
                   /\ NoLeadingZero(LowerPart(last.query)))
                  => last.text = UpperText(last.query)
           /\ ParseLSN(last.text) = [ok |-> TRUE, lsn |-> last.lsn]

\* a text with lower-case letter digits and several digits in a half was
\* parsed and printed
C31_Witness ==
    /\ last.op = "String"
    /\ last.query = <<"a", "/", "1", "a">>
    /\ last.lsn = LSN(10, 26)
    /\ last.text = <<"A", "/", "1", "A">>

\* C32: Compare is a strict total order that agrees with the unsigned
\* comparison of the 64-bit values: for every pair a, b exactly one of a < b,
\* a = b, a > b holds, Compare(a, b) = -Compare(b, a), the order is
\* transitive, and the five comparison methods agree with Compare and with
\* ToUint64.
C32_CompareTotalOrder ==
    last.op = "Compare"
        => LET a == last.lsn
               b == last.other
           IN  /\ last.n \in {-1, 0, 1}
               /\ last.n = -Compare(b, a)
               /\ (last.n = 0) = (a = b)
               /\ (last.n < 0) = (ToUint64(a) < ToUint64(b))
               /\ (last.n > 0) = (ToUint64(a) > ToUint64(b))
               /\ (last.n = 0) = (ToUint64(a) = ToUint64(b))
               /\ last.flags = <<last.n < 0, last.n <= 0, last.n > 0,
                                 last.n >= 0, last.n = 0>>
               /\ Cardinality({i \in {1, 3, 5} : last.flags[i]}) = 1
               /\ \A c \in WideLSNs :
                      /\ (last.n < 0 /\ Compare(b, c) < 0) => Compare(a, c) < 0
                      /\ (last.n <= 0 /\ Compare(b, c) <= 0) => Compare(a, c) <= 0

\* two LSNs were compared of which the smaller has the larger lower half
C32_Witness ==
    /\ last.op = "Compare"
    /\ last.lsn = LSN(1, 0)
    /\ last.other = LSN(0, HalfModulus - 1)
    /\ last.n = 1
    /\ last.flags = <<FALSE, FALSE, TRUE, TRUE, FALSE>>

\* C33: Subtract is saturating: a.Subtract(b) is 0 when a < b and the
\* difference of the 64-bit values otherwise; it is never negative and
\* never wraps around.
C33_SubtractSaturating ==
    last.op = "Subtract"
        => LET a == last.lsn
               b == last.other
           IN  /\ ToUint64(a) < ToUint64(b) => last.n = 0
               /\ ToUint64(a) >= ToUint64(b)
                      => last.n = ToUint64(a) - ToUint64(b)
               /\ last.n >= 0
               /\ last.n <= ToUint64(a)

\* a smaller LSN was subtracted from a larger one with a borrow from the
\* upper half
C33_Witness ==
    /\ last.op = "Subtract"
    /\ last.lsn = LSN(1, 0)
    /\ last.other = LSN(0, 1)
    /\ last.n = HalfModulus - 1

\* C34: LSN routing is opt-in. The facade New returns reports causal
\* consistency enabled exactly when the options given to New yield a
\* configuration with Enabled = true; with only WithPrimaryDBs and
\* WithReplicaDBs it reports false, and every read goes where it goes without
\* the LSN layer: to a replica chosen by the load balancer when one exists,
\* else to a primary, with no LSN query and whatever token the context has.
C34_OptIn ==
    /\ opt.phase = "built"
           => /\ opt.db.present /\ opt.db.primaries > 0
              /\ IsCausalConsistencyEnabled(opt.db)
                     = (opt.o.CCConfig # NilConfig /\ opt.o.CCConfig.Enabled)
              /\ opt.plain => ~IsCausalConsistencyEnabled(opt.db)
    /\ (opt.phase = "built" /\ opt.plain /\ last.op = "curDB")
           => /\ last.replayQ = <<>>
              /\ last.routeErr = ErrNone
              /\ last.resolves = 1
              /\ IF opt.db.replicas > 0
                 THEN last.db \in {Replica(i) : i \in 1..opt.db.replicas}
                 ELSE last.db \in {Primary(i) : i \in 1..opt.db.primaries}

\* New was given WithPrimaryDBs and WithReplicaDBs only, and a read under a
\* token with an LSN requirement went to a replica
C34_Witness ==
    /\ opt.phase = "built"
    /\ opt.plain
    /\ opt.count = 2
    /\ opt.db.replicas = MaxReplicas
    /\ last.op = "curDB"
    /\ last.tokBefore.present
    /\ ~IsZero(last.tokBefore.RequiredLSN)
    /\ last.db = Replica(MaxReplicas)

\* C40: each option changes only the field it names. WithLSNQueryTimeout
\* changes at most the Timeout and WithMasterFallback at most
\* FallbackToMaster of the configuration, the Enabled flag and every other
\* field of the Option stay as they were; so the facade New returns has an
\* LSN-aware router only when the caller enabled it (by a configuration with
\* Enabled = true or by a level), in whatever order the options came.
C40_OptionsChangeOnlyTheirField ==
    /\ [](opt.phase = "built" /\ IsCausalConsistencyEnabled(opt.db)
               => opt.explicit)
    /\ [][(last'.op = "WithLSNQueryTimeout"
              => opt'.o = [opt.o EXCEPT !.CCConfig.Timeout =
                                           opt'.o.CCConfig.Timeout])
          /\ (last'.op = "WithMasterFallback"
              => opt'.o = [opt.o EXCEPT !.CCConfig.FallbackToMaster =
                                           opt'.o.CCConfig.FallbackToMaster])]_vars

\* C35: when every goroutine has made its write on the primary and has
\* returned from UpdateLSNAfterWrite on the shared token without error, the
\* token's RequiredLSN is at or past the commit position of each of the
\* writes: a capture that read an older LSN does not overwrite a newer one.
C35_TokenCoversEveryWrite ==
    (\A p \in Procs : /\ upd.g[p].pc = "returned"
                       /\ upd.g[p].op = "UpdateLSNAfterWrite"
                       /\ upd.g[p].err = ErrNone)
        => \A p \in Procs : ~LessThan(ctxToken.RequiredLSN, upd.g[p].commit)

\* C36: the value GetLastKnownMasterLSN returns never goes down: each value
\* it returns is at or past every value it returned before, under every
\* interleaving of UpdateLSNAfterWrite and GetCurrentMasterLSN against a
\* primary whose WAL position only grows.
C36_LastKnownNeverDecreases ==
    ~LessThan(upd.seen, upd.before)

\* C37: RouteQuery returns an error and no handle, or a handle and no error,
\* never neither and never both; a handle it returns is one of the
\* provider's primaries or replicas; with no primary it fails for every
\* query type and token; with routing disabled it fails without a call of
\* the selector and without an LSN query.
C37_HandleOrError ==
    last.op = "RouteQuery"
        => /\ (last.err = ErrNone) = (last.db # NilDB)
           /\ last.db # NilDB => last.db \in Handles(cfg) \ {NilDB}
           /\ cfg.nPrimaries = 0 => last.err # ErrNone
           /\ (cfg.nPrimaries = 0 /\ cfg.Enabled) => last.err = ErrNoPrimary
           /\ ~cfg.Enabled => /\ last.err = ErrNotEnabled
                              /\ last.resolves = 0
                              /\ last.replayQ = <<>>

\* an enabled router without primaries but with replicas refused a read
\* under a token that forces the primary
C37_Witness ==
    /\ last.op = "RouteQuery"
    /\ cfg.Enabled
    /\ cfg.nPrimaries = 0
    /\ cfg.nReplicas = MaxReplicas
    /\ last.qt = QueryTypeRead
    /\ last.tokBefore.present
    /\ last.tokBefore.ForceMaster
    /\ last.err = ErrNoPrimary
    /\ last.db = NilDB

\* C38: an UpdateLSNAfterWrite that does not capture changes nothing. With
\* routing disabled or a nil handle it returns the zero LSN and no error and
\* makes no query; when the WAL-LSN query fails it returns the zero LSN and
\* an error. In the three cases the token of the context and the router's
\* lastMasterLSN are what they were before the call.
C38_NoCaptureNoChange ==
    [][last'.op = "UpdateLSNAfterWrite"
          => /\ (~cfg.Enabled \/ last'.db = NilDB)
                    => /\ last'.lsn = ZeroLSN
                       /\ last'.err = ErrNone
                       /\ last'.walQ = <<>>
                       /\ ctxToken' = ctxToken
                       /\ lastMasterLSN' = lastMasterLSN
             /\ (cfg.Enabled /\ last'.db.kind = "replica")
                    => last'.err = ErrMasterLSN
             /\ last'.err # ErrNone
                    => /\ last'.err = ErrMasterLSN
                       /\ last'.walQ = <<last'.db>>
                       /\ last'.lsn = ZeroLSN
                       /\ ctxToken' = ctxToken
                       /\ lastMasterLSN' = lastMasterLSN
             /\ (last'.err = ErrNone /\ last'.walQ # <<>>)
                    => /\ last'.lsn = LSNOf(wal[last'.db.idx])
                       /\ lastMasterLSN' = last'.lsn]_vars

\* UpdateLSNAfterWrite was called with a nil handle on an enabled router
\* that had cached an LSN, under a token with an LSN requirement: nothing
\* was asked and both are still there
C38_Witness ==
    /\ last.op = "UpdateLSNAfterWrite"
    /\ cfg.Enabled
    /\ last.db = NilDB
    /\ last.captures = <<NilDB>>
    /\ last.walQ = <<>>
    /\ last.err = ErrNone
    /\ IsZero(last.lsn)
    /\ ctxToken.present
    /\ ~IsZero(ctxToken.RequiredLSN)
    /\ ~IsZero(lastMasterLSN)

\* C39: the response wrapper sets the LSN cookie at most once per response,
\* and only in the first WriteHeader call of the response when that call
\* carries a 2xx status and the token of the request records a write; a
\* status outside 2xx, a request without a write and a second WriteHeader
\* call set no cookie and ask no backend, and every request starts on a
\* wrapper with wroteHeader = false and statusCode = 0.
C39_CookieOncePerResponse ==
    [][/\ (last'.op = "WriteHeader"
              /\ (http'.cookie # http.cookie \/ last'.captures # <<>>))
           => /\ ~http.wroteHeader
              /\ http'.wroteHeader
              /\ http'.statusCode >= 200 /\ http'.statusCode < 300
              /\ http'.sent = http'.statusCode
              /\ ctxToken.present /\ ctxToken.HasWriteOperation
              /\ http'.cookie # http.cookie => http'.cookie.present
       /\ (last'.op = "WriteHeader" /\ http.wroteHeader) => http' = http
       /\ (http.wroteHeader /\ ~http'.wroteHeader) => last'.op = "Middleware"
       /\ last'.op = "Middleware"
           => /\ ~http'.wroteHeader
              /\ http'.statusCode = 0
              /\ ~http'.cookie.present]_vars

\* the wrapper set the cookie in a first WriteHeader call with the largest
\* 2xx status of the model
C39_Witness ==
    /\ last.op = "WriteHeader"
    /\ last.captures # <<>>
    /\ http.wroteHeader
    /\ http.statusCode = 299
    /\ http.cookie.present
    /\ ctxToken.HasWriteOperation
====
